---- MODULE Spec2Model ----
(***************************************************************************)
(* Value networks of agent57/utils/networks/value.py as a state machine.   *)
(*                                                                         *)
(* A network is a record of its attributes (the nn.Module); a forward call *)
(* is an operator from (network, input) to the returned NamedTuple.        *)
(* Tensors are nested sequences (row-major, index 1 of TLA+ is index 0 of  *)
(* torch).  Head outputs are integers; a value that went through           *)
(* torch.mean is an exact rational <<numerator, denominator>> in lowest    *)
(* terms, so that the arithmetic is the real-number arithmetic the floats  *)
(* approximate.  Layer widths (64, 128, 256, 512 in the source) are scaled *)
(* to Units.  torch.nn.LSTM, nn.Linear and nn.ReLU are the library's;      *)
(* LSTM is modelled as a deterministic saturating cell, see LSTM below.    *)
(***************************************************************************)
EXTENDS Integers, Sequences, FiniteSets, TLC

VARIABLES
    net,     \* the constructed network: its class and attributes
    inp,     \* the arguments of the last forward call
    out,     \* what the last forward call returned, or the exception it raised
    hidden,  \* the recurrent state the caller holds
    calls,   \* the number of forward calls made
    spent,   \* the number of nonzero input entries supplied so far
    twin,    \* Agent57: the run that differs in one stream's memory
    prev,    \* the arguments and the result of the call before the last
    resets,  \* the layers whose reset_noise the last reset_noise call called, in order
    heap     \* the tensors handed to the caller as objects, by address

vars == <<net, inp, out, hidden, calls, spent, twin, prev, resets, heap>>

(***************************************************************************)
(* Bounds of the model.                                                    *)
(***************************************************************************)
MaxActionDim == 2
MaxBatch == 2
MaxTime == 2
MaxAtoms == 2
MaxPolicies == 2
MaxSeed == 2
MaxCalls == 2
Units == 1
StateWidth == 1
CellLimit == 2

\* Python's None, and the entries an observation tensor may hold.
None == <<>>
ObsValues == {0, 1}
RewardValues == {0, 1}

(***************************************************************************)
(* Exact rationals.                                                        *)
(***************************************************************************)
Abs(x) == IF x < 0 THEN -x ELSE x

RECURSIVE Gcd(_, _)
Gcd(a, b) == IF b = 0 THEN a ELSE Gcd(b, a % b)

Rat(n, d) ==
    LET g == Gcd(Abs(n), Abs(d))
        s == IF d < 0 THEN -1 ELSE 1
    IN  <<(s * n) \div g, (s * d) \div g>>

RAdd(x, y) == Rat(x[1] * y[2] + y[1] * x[2], x[2] * y[2])
RSub(x, y) == Rat(x[1] * y[2] - y[1] * x[2], x[2] * y[2])
Zero == Rat(0, 1)

RECURSIVE Sum(_)
Sum(s) == IF s = <<>> THEN 0 ELSE Head(s) + Sum(Tail(s))

RECURSIVE RSum(_)
RSum(s) == IF s = <<>> THEN Zero ELSE RAdd(Head(s), RSum(Tail(s)))

\* torch.mean over a vector of integers / of rationals.
Mean(s) == Rat(Sum(s), Len(s))
RMean(s) == LET t == RSum(s) IN Rat(t[1], t[2] * Len(s))

(***************************************************************************)
(* Tensors.  T1, T2 and T3 give a tensor of rank 1, 2, 3 as a sequence of  *)
(* its entries (of sequences of entries); they change no value.            *)
(***************************************************************************)
T1(s) == s \o <<>>
T2(s) == [i \in 1..Len(s) |-> T1(s[i])] \o <<>>
T3(s) == [i \in 1..Len(s) |-> T2(s[i])] \o <<>>

RECURSIVE Flatten01(_)
Flatten01(x) == IF x = <<>> THEN <<>> ELSE Head(x) \o Flatten01(Tail(x))

\* flat.view(d0, d1, ...): element [i][j] is flat[i * d1 + j] (0-based).
View(flat, d0, d1) ==
    T2([i \in 1..d0 |-> [j \in 1..d1 |-> flat[(i - 1) * d1 + j]]])

OneHot(k, n) == T1([i \in 1..n |-> IF i = k + 1 THEN 1 ELSE 0])

Zeros(d0, d1, d2) == T3([l \in 1..d0 |-> [b \in 1..d1 |-> [j \in 1..d2 |-> 0]]])

Shape3(x) == <<Len(x), Len(x[1]), Len(x[1][1])>>

(***************************************************************************)
(* Python values: an int or a tuple argument (state_dim), and exceptions.  *)
(***************************************************************************)
PyInt(n) == [int |-> n]
PyTuple(t) == [tuple |-> t]
IsInt(v) == "int" \in DOMAIN v
Raise(exc, what) == [raised |-> exc, what |-> what]
Raised(m) == "raised" \in DOMAIN m
Nothing == [nothing |-> TRUE]

(***************************************************************************)
(* Layers.  The learned parameters are fixed by a seed: seed 0 is the      *)
(* all-zero parameter set, every other seed gives weights in -1..1 that    *)
(* differ from position to position.                                       *)
(***************************************************************************)
Weight(seed, id, o, i) ==
    IF seed = 0 THEN 0 ELSE (((seed - 1) * id + o + i) % 3) - 1

Bias(seed, id, o) == IF seed = 0 THEN 0 ELSE (seed + id + o) % 2

Linear(seed, id, in_features, out_features) ==
    [kind |-> "Linear", in_features |-> in_features, out_features |-> out_features,
     weight |-> T2([o \in 1..out_features |-> [i \in 1..in_features |-> Weight(seed, id, o, i)]]),
     bias |-> T1([o \in 1..out_features |-> Bias(seed, id, o)])]

ReLU == [kind |-> "ReLU"]

\* common.NoisyLinear: an affine layer whose effective weights are the learned
\* ones plus the current noise sample; noise names the sample.
NoisyLinear(seed, id, in_features, out_features, noise) ==
    [kind |-> "NoisyLinear", in_features |-> in_features, out_features |-> out_features,
     weight |-> T2([o \in 1..out_features |-> [i \in 1..in_features |-> Weight(seed, id, o, i)]]),
     bias |-> T1([o \in 1..out_features |-> Bias(seed, id, o)]),
     noise |-> noise]

Dot(w, x) == Sum([i \in 1..Len(w) |-> w[i] * x[i]])

\* module(row) for one row of a batch.
Call(m, row) ==
    CASE m.kind = "ReLU" -> T1([i \in 1..Len(row) |-> IF row[i] > 0 THEN row[i] ELSE 0])
      [] m.kind = "Linear" ->
            T1([o \in 1..m.out_features |-> Dot(m.weight[o], row) + m.bias[o]])
      [] m.kind = "NoisyLinear" ->
            T1([o \in 1..m.out_features |->
                Dot([i \in 1..m.in_features |->
                        m.weight[o][i] + Weight(m.noise, o, i, 1)], row)
                + m.bias[o] + Bias(m.noise, o, 1)])

\* nn.Sequential applied to every row of a [N, width] tensor.
RECURSIVE SequentialRow(_, _)
SequentialRow(mods, row) ==
    IF mods = <<>> THEN row ELSE SequentialRow(Tail(mods), Call(Head(mods), row))

Sequential(mods, x) == T1([n \in 1..Len(x) |-> SequentialRow(mods, x[n])])

\* common.NatureCnnBackboneNet: observation of the declared shape to a feature
\* vector of width out_features; the image is held flattened.
NatureCnnBackboneNet(state_dim, seed) ==
    LET n == IF IsInt(state_dim) THEN state_dim.int
             ELSE state_dim.tuple[1] * state_dim.tuple[2] * state_dim.tuple[3]
    IN  [out_features |-> Units,
         layers |-> <<Linear(seed, 1, n, Units), ReLU>>]

\* x.float() / 255.0
Pixel == 255
Float255(x) == T2([n \in 1..Len(x) |-> [i \in 1..Len(x[n]) |-> x[n][i] \div Pixel]])

(***************************************************************************)
(* Dueling decomposition and the normalized exponential.                   *)
(***************************************************************************)
\* A combination that leaves the advantages uncentred.
DuelingQValuesUncentred(values, advantages) ==
    T2([n \in 1..Len(advantages) |->
        [a \in 1..Len(advantages[n]) |->
            RAdd(Rat(values[n][1], 1), Rat(advantages[n][a], 1))]])

\* values + (advantages - torch.mean(advantages, dim=1, keepdim=True)) with
\* advantages [N, action_dim] and values [N, 1].
DuelingQValues(values, advantages) ==
    T2([n \in 1..Len(advantages) |->
        [a \in 1..Len(advantages[n]) |->
            RAdd(Rat(values[n][1], 1),
                 RSub(Rat(advantages[n][a], 1), Mean(advantages[n])))]])

\* A combination whose mean runs over the atom axis.
DuelingQLogitsAtomMean(values, advantages) ==
    T3([n \in 1..Len(advantages) |->
        [a \in 1..Len(advantages[n]) |->
            [k \in 1..Len(advantages[n][a]) |->
                RAdd(Rat(values[n][1][k], 1),
                     RSub(Rat(advantages[n][a][k], 1), Mean(advantages[n][a])))]]])

\* The same on [N, action_dim, num_atoms] and [N, 1, num_atoms]: the mean is
\* over dim=1, the action axis, separately for every atom.
DuelingQLogits(values, advantages) ==
    T3([n \in 1..Len(advantages) |->
        [a \in 1..Len(advantages[n]) |->
            [k \in 1..Len(advantages[n][a]) |->
                RAdd(Rat(values[n][1][k], 1),
                     RSub(Rat(advantages[n][a][k], 1),
                          Mean([b \in 1..Len(advantages[n]) |-> advantages[n][b][k]])))]]])

RECURSIVE Pow2(_)
Pow2(n) == IF n = 0 THEN 1 ELSE 2 * Pow2(n - 1)

RMul(x, y) == Rat(x[1] * y[1], x[2] * y[2])

Max(S) == CHOOSE m \in S : \A e \in S : m >= e

\* F.softmax(logits, dim=-1) on one vector of logits p/q, q dividing scale.
\* The exponential is taken to the base 2^scale in place of e, so that every
\* power is exact: exp(p/q) is 2^(scale * p / q).  The powers are taken
\* relative to the largest, and one more than Precision binary orders below
\* it underflows to 0, as the floating-point exponential does.
Precision == 12

SoftmaxWeights(e, most) ==
    T1([k \in 1..Len(e) |->
        IF most - e[k] > Precision THEN 0 ELSE Pow2(Precision - (most - e[k]))])

Normalized(w, total) == T1([k \in 1..Len(w) |-> Rat(w[k], total)])

\* Weights divided by the largest of them in place of their sum.
NormalizeByLargest(w) == Normalized(w, Max({w[k] : k \in 1..Len(w)}))

Normalize(w) == Normalized(w, Sum(w))

Exponents(logits, scale) ==
    T1([k \in 1..Len(logits) |-> (scale * logits[k][1]) \div logits[k][2]])

SoftmaxOf(e) == Normalize(SoftmaxWeights(e, Max({e[k] : k \in 1..Len(e)})))

Softmax(logits, scale) == SoftmaxOf(Exponents(logits, scale))

\* An expectation that pairs the atoms with the logits in reverse.
ExpectationReversed(q_dist, atoms) ==
    T2([n \in 1..Len(q_dist) |->
        [a \in 1..Len(q_dist[n]) |->
            RSum([k \in 1..Len(atoms) |->
                    RMul(q_dist[n][a][k], Rat(atoms[Len(atoms) + 1 - k], 1))])]])

\* torch.sum(q_dist * atoms, dim=-1) for atoms[None, None, :].
Expectation(q_dist, atoms) ==
    T2([n \in 1..Len(q_dist) |->
        [a \in 1..Len(q_dist[n]) |->
            RSum([k \in 1..Len(atoms) |-> RMul(q_dist[n][a][k], Rat(atoms[k], 1))])]])

(***************************************************************************)
(* Feed-forward dueling networks.                                          *)
(***************************************************************************)
DuelingDqnMlpNet(state_dim, action_dim, seed) ==
    IF action_dim < 1 THEN Raise("ValueError", "action_dim")
    ELSE IF state_dim.int < 1 THEN Raise("ValueError", "state_dim")
    ELSE [cls |-> "DuelingDqnMlpNet", action_dim |-> action_dim,
          body |-> <<Linear(seed, 1, state_dim.int, Units), ReLU,
                     Linear(seed, 2, Units, Units), ReLU>>,
          advantage_head |-> <<Linear(seed, 3, Units, Units), ReLU,
                               Linear(seed, 4, Units, action_dim)>>,
          value_head |-> <<Linear(seed, 5, Units, Units), ReLU,
                           Linear(seed, 6, Units, 1)>>]

DuelingDqnMlpNetForward(self, x) ==
    LET features == Sequential(self.body, x)
        advantages == Sequential(self.advantage_head, features)
        values == Sequential(self.value_head, features)
    IN  [advantages |-> advantages, values |-> values,
         q_values |-> DuelingQValues(values, advantages)]

\* "state_dim < 1" is evaluated on the argument as given: on a (C, H, W)
\* tuple Python raises TypeError.
DuelingDqnConvNet(state_dim, action_dim, seed) ==
    IF action_dim < 1 THEN Raise("ValueError", "action_dim")
    ELSE IF ~IsInt(state_dim) THEN Raise("TypeError", "state_dim < 1")
    ELSE IF state_dim.int < 1 THEN Raise("ValueError", "state_dim")
    ELSE LET body == NatureCnnBackboneNet(state_dim, seed)
         IN [cls |-> "DuelingDqnConvNet", action_dim |-> action_dim,
             body |-> body.layers,
             advantage_head |-> <<Linear(seed, 3, body.out_features, Units), ReLU,
                                  Linear(seed, 4, Units, action_dim)>>,
             value_head |-> <<Linear(seed, 5, body.out_features, Units), ReLU,
                              Linear(seed, 6, Units, 1)>>]

DuelingDqnConvNetForward(self, x) ==
    LET features == Sequential(self.body, x)
        advantages == Sequential(self.advantage_head, features)
        values == Sequential(self.value_head, features)
    IN  [advantages |-> advantages, values |-> values,
         q_values |-> DuelingQValues(values, advantages)]

(***************************************************************************)
(* Rainbow: dueling over a categorical representation, noisy heads.        *)
(***************************************************************************)
\* x.view(-1, d1, d2)
View3(x, d1, d2) ==
    LET flat == Flatten01(x)
    IN  T1([n \in 1..(Len(flat) \div (d1 * d2)) |->
            View(SubSeq(flat, (n - 1) * d1 * d2 + 1, n * d1 * d2), d1, d2)])

\* A tensor argument (atoms, quantiles): its shape and its entries.
Tensor1(data) == [shape |-> <<Len(data)>>, data |-> data]

RainbowDqnMlpNet(state_dim, action_dim, atoms, seed) ==
    IF action_dim < 1 THEN Raise("ValueError", "action_dim")
    ELSE IF state_dim.int < 1 THEN Raise("ValueError", "state_dim")
    ELSE IF Len(atoms.shape) # 1 THEN Raise("ValueError", "atoms")
    ELSE LET num_atoms == atoms.shape[1]
         IN [cls |-> "RainbowDqnMlpNet", action_dim |-> action_dim,
             atoms |-> atoms.data, num_atoms |-> num_atoms,
             body |-> <<Linear(seed, 1, state_dim.int, Units), ReLU,
                        Linear(seed, 2, Units, Units), ReLU>>,
             advantage_head |-> <<NoisyLinear(seed, 3, Units, Units, 1), ReLU,
                                  NoisyLinear(seed, 4, Units, action_dim * num_atoms, 1)>>,
             value_head |-> <<NoisyLinear(seed, 5, Units, Units, 1), ReLU,
                              NoisyLinear(seed, 6, Units, 1 * num_atoms, 1)>>]

RainbowDqnMlpNetForward(self, x) ==
    LET x1 == Sequential(self.body, x)
        advantages == View3(Sequential(self.advantage_head, x1),
                            self.action_dim, self.num_atoms)
        values == View3(Sequential(self.value_head, x1), 1, self.num_atoms)
        q_logits == DuelingQLogits(values, advantages)
        q_dist == T2([n \in 1..Len(q_logits) |-> [a \in 1..Len(q_logits[n]) |->
                        Softmax(q_logits[n][a], self.action_dim)]])
    IN  [advantages |-> advantages, values |-> values, q_dist |-> q_dist,
         q_logits |-> q_logits, q_values |-> Expectation(q_dist, self.atoms)]

RainbowDqnConvNet(state_dim, action_dim, atoms, seed) ==
    IF Len(atoms.shape) # 1 THEN Raise("ValueError", "atoms")
    ELSE IF action_dim < 1 THEN Raise("ValueError", "action_dim")
    ELSE IF IsInt(state_dim) THEN Raise("TypeError", "len(state_dim)")
    ELSE IF Len(state_dim.tuple) # 3 THEN Raise("ValueError", "state_dim")
    ELSE LET num_atoms == atoms.shape[1]
             body == NatureCnnBackboneNet(state_dim, seed)
         IN [cls |-> "RainbowDqnConvNet", action_dim |-> action_dim,
             atoms |-> atoms.data, num_atoms |-> num_atoms,
             body |-> body.layers,
             advantage_head |-> <<NoisyLinear(seed, 3, body.out_features, Units, 1), ReLU,
                                  NoisyLinear(seed, 4, Units, action_dim * num_atoms, 1)>>,
             value_head |-> <<NoisyLinear(seed, 5, body.out_features, Units, 1), ReLU,
                              NoisyLinear(seed, 6, Units, 1 * num_atoms, 1)>>]

RainbowDqnConvNetForward(self, x) ==
    LET x1 == Sequential(self.body, Float255(x))
        advantages == View3(Sequential(self.advantage_head, x1),
                            self.action_dim, self.num_atoms)
        values == View3(Sequential(self.value_head, x1), 1, self.num_atoms)
        q_logits == DuelingQLogits(values, advantages)
        q_dist == T2([n \in 1..Len(q_logits) |-> [a \in 1..Len(q_logits[n]) |->
                        Softmax(q_logits[n][a], self.action_dim)]])
    IN  [advantages |-> advantages, values |-> values, q_dist |-> q_dist,
         q_logits |-> q_logits, q_values |-> Expectation(q_dist, self.atoms)]

(***************************************************************************)
(* Single-head feed-forward networks: DQN, C51, QR-DQN, and the IQN        *)
(* constructors.  Their forward takes the observation with its shape, a    *)
(* record [shape, data]: nn.Linear and nn.ReLU act on the last axis        *)
(* whatever the leading axes are, and view(-1, ...) reads the entries in   *)
(* row-major order.                                                        *)
(***************************************************************************)
Tensor(shape, data) == [shape |-> shape, data |-> data]
Rank(x) == Len(x.shape)

\* nn.Sequential of linear layers on a tensor of rank 2 or 3.
SequentialLast(mods, x) ==
    IF Rank(x) = 2 THEN Sequential(mods, x.data)
    ELSE T1([i \in 1..Len(x.data) |-> Sequential(mods, x.data[i])])

\* The rows of a result of SequentialLast with the leading axes merged.
Rows(y, rank) == IF rank = 2 THEN y ELSE Flatten01(y)

DqnMlpNet(state_dim, action_dim, seed) ==
    IF action_dim < 1 THEN Raise("ValueError", "action_dim")
    ELSE IF state_dim.int < 1 THEN Raise("ValueError", "state_dim")
    ELSE [cls |-> "DqnMlpNet",
          body |-> <<Linear(seed, 1, state_dim.int, Units), ReLU,
                     Linear(seed, 2, Units, Units), ReLU,
                     Linear(seed, 3, Units, action_dim)>>]

\* A forward whose last layer adds no bias.
DqnMlpNetForwardUnbiased(self, x) ==
    [q_values |-> SequentialLast(
        [self.body EXCEPT ![Len(self.body)].bias = [o \in 1..Len(@) |-> 0]], x)]

DqnMlpNetForward(self, x) == [q_values |-> SequentialLast(self.body, x)]

DqnConvNet(state_dim, action_dim, seed) ==
    IF action_dim < 1 THEN Raise("ValueError", "action_dim")
    ELSE IF IsInt(state_dim) THEN Raise("TypeError", "len(state_dim)")
    ELSE IF Len(state_dim.tuple) # 3 THEN Raise("ValueError", "state_dim")
    ELSE LET body == NatureCnnBackboneNet(state_dim, seed)
         IN [cls |-> "DqnConvNet", action_dim |-> action_dim,
             body |-> body.layers,
             value_head |-> <<Linear(seed, 3, body.out_features, Units), ReLU,
                              Linear(seed, 4, Units, action_dim)>>]

DqnConvNetForward(self, x) ==
    [q_values |-> Sequential(self.value_head, Sequential(self.body, Float255(x.data)))]

\* F.softmax(q_logits, dim=-1) of integer logits [N, action_dim, num_atoms].
SoftmaxLast(q_logits) ==
    T2([n \in 1..Len(q_logits) |-> [a \in 1..Len(q_logits[n]) |-> SoftmaxOf(q_logits[n][a])]])

\* q_logits, q_dist and q_values of a categorical head from its output rows.
C51NetworkOutputs(self, rows) ==
    LET q_logits == View3(rows, self.action_dim, self.num_atoms)
        q_dist == SoftmaxLast(q_logits)
    IN  [q_logits |-> q_logits, q_dist |-> q_dist,
         q_values |-> Expectation(q_dist, self.atoms)]

\* A constructor that takes the support as it comes.
C51DqnMlpNetUnchecked(state_dim, action_dim, atoms, seed) ==
    IF action_dim < 1 THEN Raise("ValueError", "action_dim")
    ELSE IF state_dim.int < 1 THEN Raise("ValueError", "state_dim")
    ELSE LET num_atoms == IF atoms.shape = <<>> THEN 1 ELSE atoms.shape[1]
         IN [cls |-> "C51DqnMlpNet", action_dim |-> action_dim,
             atoms |-> atoms.data, num_atoms |-> num_atoms,
             body |-> <<Linear(seed, 1, state_dim.int, Units), ReLU,
                        Linear(seed, 2, Units, Units), ReLU,
                        Linear(seed, 3, Units, action_dim * num_atoms)>>]

C51DqnMlpNet(state_dim, action_dim, atoms, seed) ==
    IF action_dim < 1 THEN Raise("ValueError", "action_dim")
    ELSE IF state_dim.int < 1 THEN Raise("ValueError", "state_dim")
    ELSE IF Len(atoms.shape) # 1 THEN Raise("ValueError", "atoms")
    ELSE LET num_atoms == atoms.shape[1]
         IN [cls |-> "C51DqnMlpNet", action_dim |-> action_dim,
             atoms |-> atoms.data, num_atoms |-> num_atoms,
             body |-> <<Linear(seed, 1, state_dim.int, Units), ReLU,
                        Linear(seed, 2, Units, Units), ReLU,
                        Linear(seed, 3, Units, action_dim * num_atoms)>>]

C51DqnMlpNetForward(self, x) ==
    C51NetworkOutputs(self, Rows(SequentialLast(self.body, x), Rank(x)))

C51DqnConvNet(state_dim, action_dim, atoms, seed) ==
    IF action_dim < 1 THEN Raise("ValueError", "action_dim")
    ELSE IF IsInt(state_dim) THEN Raise("TypeError", "len(state_dim)")
    ELSE IF Len(state_dim.tuple) # 3 THEN Raise("ValueError", "state_dim")
    ELSE IF Len(atoms.shape) # 1 THEN Raise("ValueError", "atoms")
    ELSE LET num_atoms == atoms.shape[1]
             body == NatureCnnBackboneNet(state_dim, seed)
         IN [cls |-> "C51DqnConvNet", action_dim |-> action_dim,
             atoms |-> atoms.data, num_atoms |-> num_atoms,
             body |-> body.layers,
             value_head |-> <<Linear(seed, 3, body.out_features, Units), ReLU,
                              Linear(seed, 4, Units, action_dim * num_atoms)>>]

C51DqnConvNetForward(self, x) ==
    C51NetworkOutputs(self,
        Sequential(self.value_head, Sequential(self.body, Float255(x.data))))

\* A mean over the last axis, the actions.
MeanDim2(q_dist) ==
    T2([n \in 1..Len(q_dist) |-> [k \in 1..Len(q_dist[n]) |-> Mean(q_dist[n][k])]])

\* torch.mean(q_dist, dim=1) of q_dist [N, num_taus, action_dim].
MeanDim1(q_dist) ==
    T2([n \in 1..Len(q_dist) |->
        [a \in 1..Len(q_dist[n][1]) |->
            Mean([k \in 1..Len(q_dist[n]) |-> q_dist[n][k][a]])]])

\* q_dist and q_values of a quantile head from its output rows.
QRDqnNetworkOutputs(self, rows) ==
    LET q_dist == View3(rows, self.num_taus, self.action_dim)
    IN  [q_values |-> MeanDim1(q_dist), q_dist |-> q_dist, rows |-> rows]

QRDqnMlpNet(state_dim, action_dim, quantiles, seed) ==
    IF action_dim < 1 THEN Raise("ValueError", "action_dim")
    ELSE IF state_dim.int < 1 THEN Raise("ValueError", "state_dim")
    ELSE IF Len(quantiles.shape) # 1 THEN Raise("ValueError", "quantiles")
    ELSE LET num_taus == quantiles.shape[1]
         IN [cls |-> "QRDqnMlpNet", action_dim |-> action_dim,
             taus |-> quantiles.data, num_taus |-> num_taus,
             body |-> <<Linear(seed, 1, state_dim.int, Units), ReLU,
                        Linear(seed, 2, Units, Units), ReLU,
                        Linear(seed, 3, Units, action_dim * num_taus)>>]

QRDqnMlpNetForward(self, x) ==
    QRDqnNetworkOutputs(self, Rows(SequentialLast(self.body, x), Rank(x)))

QRDqnConvNet(state_dim, action_dim, quantiles, seed) ==
    IF action_dim < 1 THEN Raise("ValueError", "action_dim")
    ELSE IF IsInt(state_dim) THEN Raise("TypeError", "len(state_dim)")
    ELSE IF Len(state_dim.tuple) # 3 THEN Raise("ValueError", "state_dim")
    ELSE IF Len(quantiles.shape) # 1 THEN Raise("ValueError", "quantiles")
    ELSE LET num_taus == quantiles.shape[1]
             body == NatureCnnBackboneNet(state_dim, seed)
         IN [cls |-> "QRDqnConvNet", action_dim |-> action_dim,
             taus |-> quantiles.data, num_taus |-> num_taus,
             body |-> body.layers,
             value_head |-> <<Linear(seed, 3, body.out_features, Units), ReLU,
                              Linear(seed, 4, Units, action_dim * num_taus)>>]

QRDqnConvNetForward(self, x) ==
    QRDqnNetworkOutputs(self,
        Sequential(self.value_head, Sequential(self.body, Float255(x.data))))

\* self.pis is arange(1, latent_dim + 1) * pi, held as the multiples of pi.
IqnMlpNet(state_dim, action_dim, latent_dim, seed) ==
    IF action_dim < 1 THEN Raise("ValueError", "action_dim")
    ELSE IF state_dim.int < 1 THEN Raise("ValueError", "state_dim")
    ELSE IF latent_dim < 1 THEN Raise("ValueError", "latent_dim")
    ELSE [cls |-> "IqnMlpNet", action_dim |-> action_dim, latent_dim |-> latent_dim,
          pis |-> T1([i \in 1..latent_dim |-> i]),
          body |-> <<Linear(seed, 1, state_dim.int, Units), ReLU,
                     Linear(seed, 2, Units, Units), ReLU>>,
          embedding_layer |-> Linear(seed, 3, latent_dim, Units),
          value_head |-> <<Linear(seed, 4, Units, action_dim)>>]

IqnConvNet(state_dim, action_dim, latent_dim, seed) ==
    IF action_dim < 1 THEN Raise("ValueError", "action_dim")
    ELSE IF IsInt(state_dim) THEN Raise("TypeError", "len(state_dim)")
    ELSE IF Len(state_dim.tuple) # 3 THEN Raise("ValueError", "state_dim")
    ELSE IF latent_dim < 1 THEN Raise("ValueError", "latent_dim")
    ELSE LET body == NatureCnnBackboneNet(state_dim, seed)
         IN [cls |-> "IqnConvNet", action_dim |-> action_dim, latent_dim |-> latent_dim,
             pis |-> T1([i \in 1..latent_dim |-> i]),
             body |-> body.layers,
             embedding_layer |-> Linear(seed, 3, latent_dim, body.out_features),
             value_head |-> <<Linear(seed, 4, body.out_features, Units), ReLU,
                              Linear(seed, 5, Units, action_dim)>>]

\* torch.cos(pi * i * tau) for tau a multiple of 1/2: the cosine of k
\* quarter turns.
CosPi(i, tau) ==
    LET k == (i * tau[1] * (2 \div tau[2])) % 4
    IN  IF k = 0 THEN 1 ELSE IF k = 2 THEN -1 ELSE 0

\* tau_embedding * features[:, None, :] of [B, N, W] and [B, W].
Fuse(tau_embedding, features) ==
    T3([b \in 1..Len(tau_embedding) |-> [n \in 1..Len(tau_embedding[b]) |->
        [j \in 1..Len(tau_embedding[b][n]) |-> tau_embedding[b][n][j] * features[b][j]]]])

\* A basis in which sample n of a batch element is embedded from the sample
\* at the mirrored index.
CosineBasisMirrored(self, taus) ==
    T3([b \in 1..Len(taus) |-> [n \in 1..Len(taus[b]) |->
        [l \in 1..self.latent_dim |->
            CosPi(self.pis[l], taus[b][Len(taus[b]) + 1 - n])]]])

\* cos(pis * taus[:, :, None]) as [batch_size, num_taus, latent_dim].
CosineBasis(self, taus) ==
    T3([b \in 1..Len(taus) |-> [n \in 1..Len(taus[b]) |->
        [l \in 1..self.latent_dim |-> CosPi(self.pis[l], taus[b][n])]]])

\* The forward passes after the features and the sample: embedding, fusion
\* with the features, value head, mean over the samples.
IqnEmbedded(self, basis, batch_size, num_taus) ==
    View(Sequential(<<self.embedding_layer, ReLU>>, Flatten01(basis)), batch_size, num_taus)

IqnHead(self, head_input, batch_size, num_taus) ==
    View(Sequential(self.value_head, Flatten01(head_input)), batch_size, num_taus)

IqnNetworkOutputs(self, features, taus, batch_size, num_taus) ==
    LET q_dist == IqnHead(self,
                      Fuse(IqnEmbedded(self, CosineBasis(self, taus), batch_size, num_taus),
                           features),
                      batch_size, num_taus)
    IN  [q_values |-> MeanDim1(q_dist), q_dist |-> q_dist, taus |-> taus]

\* q_dist with the sample axis last.
SamplesLast(r) ==
    [r EXCEPT !.q_dist =
        T3([b \in 1..Len(r.q_dist) |-> [a \in 1..Len(r.q_dist[b][1]) |->
            [n \in 1..Len(r.q_dist[b]) |-> r.q_dist[b][n][a]]]])]

\* A forward that returns q_dist as [batch_size, action_dim, num_taus].
IqnMlpNetForwardSamplesLast(self, x, num_taus, taus) ==
    SamplesLast(IqnNetworkOutputs(self, Sequential(self.body, x.data), taus,
                                  x.shape[1], num_taus))

\* forward(x, num_taus) with taus the sample that sample_taus draws.
IqnMlpNetForward(self, x, num_taus, taus) ==
    IqnNetworkOutputs(self, Sequential(self.body, x.data), taus, x.shape[1], num_taus)

IqnConvNetForward(self, x, num_taus, taus) ==
    IqnNetworkOutputs(self, Sequential(self.body, Float255(x.data)), taus,
                      x.shape[1], num_taus)

(***************************************************************************)
(* reset_noise of the Rainbow networks.  nn.Module.modules() yields the    *)
(* module itself and then its descendants: for an nn.Sequential of layers  *)
(* the container, then the layers in order.  A module is named by its head *)
(* and its index in the head; the container has index -1.                  *)
(***************************************************************************)
Container == [kind |-> "Sequential"]

Modules(self, head) ==
    <<[head |-> head, index |-> -1, module |-> Container]>>
      \o [i \in 1..Len(self[head]) |->
            [head |-> head, index |-> i - 1, module |-> self[head][i]]]

Min(a, b) == IF a < b THEN a ELSE b

\* A pairing that runs to the end of the longer sequence, filled with None.
Filler == [head |-> "", index |-> -1, module |-> [kind |-> "NoneType"]]
ZipLongest(a, b) ==
    [i \in 1..Max({Len(a), Len(b)}) |->
        <<IF i <= Len(a) THEN a[i] ELSE Filler, IF i <= Len(b) THEN b[i] ELSE Filler>>]

\* zip(a, b): pairs up to the end of the shorter sequence.
Zip(a, b) == [i \in 1..Min(Len(a), Len(b)) |-> <<a[i], b[i]>>]

\* A concatenation that lists every first component before the second ones.
ChainByHead(pairs) ==
    [i \in 1..Len(pairs) |-> pairs[i][1]] \o [i \in 1..Len(pairs) |-> pairs[i][2]]

\* list(chain(*pairs)): the components of the pairs, pair after pair.
Chain(pairs) == Flatten01(pairs)

\* A test every module passes.
IsInstanceModule(module) == TRUE

\* isinstance(module, common.NoisyLinear)
IsInstanceNoisyLinear(module) == module.kind = "NoisyLinear"

\* common.NoisyLinear.reset_noise: the layer draws a new noise sample and
\* keeps its learned parameters.
NoisyLinearResetNoise(layer, sample) ==
    IF "noise" \in DOMAIN layer THEN [layer EXCEPT !.noise = sample] ELSE layer

\* The modules whose reset_noise is called, in the order of the calls.
ResetNoiseCalls(self) ==
    SelectSeq(Chain(Zip(Modules(self, "advantage_head"), Modules(self, "value_head"))),
              LAMBDA m : IsInstanceNoisyLinear(m.module))

\* The head after the calls: samples[j] is the sample the j-th call draws.
ResetNoiseHead(self, head, order, samples) ==
    [i \in 1..Len(self[head]) |->
        LET js == {j \in 1..Len(order) : order[j].head = head /\ order[j].index = i - 1}
        IN  IF js = {} THEN self[head][i]
            ELSE NoisyLinearResetNoise(self[head][i], samples[Max(js)])] \o <<>>

ResetNoise(self, order, samples) ==
    [self |-> [self EXCEPT
                 !.advantage_head = ResetNoiseHead(self, "advantage_head", order, samples),
                 !.value_head = ResetNoiseHead(self, "value_head", order, samples)],
     order |-> [j \in 1..Len(order) |-> <<order[j].head, order[j].index>>] \o <<>>]

RainbowDqnMlpNetResetNoise(self, samples) == ResetNoise(self, ResetNoiseCalls(self), samples)

RainbowDqnConvNetResetNoise(self, samples) == ResetNoise(self, ResetNoiseCalls(self), samples)

(***************************************************************************)
(* torch.nn.LSTM with one layer.  A cell keeps, per batch column, a        *)
(* short-term vector h and a long-term vector c of width hidden_size.  At  *)
(* every time step the candidate g and the output gate o are affine in the *)
(* step's input and the previous h; c accumulates g and saturates at       *)
(* +-CellLimit; h is c where the gate is open and 0 where it is closed.    *)
(* Columns never mix and time steps run in order, as in the library.       *)
(***************************************************************************)
LSTMModule(seed, id, input_size, hidden_size, batch_first) ==
    [input_size |-> input_size, hidden_size |-> hidden_size, num_layers |-> 1,
     batch_first |-> batch_first,
     weight_ih |-> T2([j \in 1..hidden_size |-> [i \in 1..input_size |-> Weight(seed, id, j, i)]]),
     weight_hh |-> T2([j \in 1..hidden_size |-> [k \in 1..hidden_size |-> Weight(seed, id + 1, j, k)]]),
     bias |-> T1([j \in 1..hidden_size |-> Bias(seed, id, j)]),
     gate_ih |-> T2([j \in 1..hidden_size |-> [i \in 1..input_size |-> Weight(seed, id + 2, j, i)]]),
     gate_hh |-> T2([j \in 1..hidden_size |-> [k \in 1..hidden_size |-> Weight(seed, id + 3, j, k)]]),
     gate_bias |-> T1([j \in 1..hidden_size |-> Bias(seed, id + 1, j)])]

Clip(v) == IF v > CellLimit THEN CellLimit ELSE IF v < -CellLimit THEN -CellLimit ELSE v

\* The cell's output h' under the output gate o, with the cell state c'.
LSTMGate(o, c1) == <<T1([j \in 1..Len(c1) |-> IF o[j] >= 0 THEN c1[j] ELSE 0]), c1>>

\* One time step of one batch column: <<h', c'>>.  The candidate g and the
\* gate o are affine in the input x and the last output h.
LSTMCell(lstm, x, h, c) ==
    LSTMGate(T1([j \in 1..lstm.hidden_size |->
                Dot(lstm.gate_ih[j], x) + Dot(lstm.gate_hh[j], h) + lstm.gate_bias[j]]),
             T1([j \in 1..lstm.hidden_size |->
                Clip(c[j] + Dot(lstm.weight_ih[j], x) + Dot(lstm.weight_hh[j], h)
                          + lstm.bias[j])]))

\* The steps xs of one column from state <<h, c>>: the outputs so far and the
\* state after the last step.
RECURSIVE LSTMColumn(_, _, _, _)
LSTMNext(lstm, xs, n, outs) == LSTMColumn(lstm, xs, n, Append(outs, n[1]))
LSTMColumn(lstm, xs, hc, outs) ==
    IF xs = <<>> THEN [outs |-> outs, hc |-> hc]
    ELSE LSTMNext(lstm, Tail(xs), LSTMCell(lstm, Head(xs), hc[1], hc[2]), outs)

\* A result whose state is returned as (c_n, h_n).
LSTMResultStateSwapped(lstm, col, T, B) ==
    [output |-> IF lstm.batch_first
                THEN T2([b \in 1..B |-> [t \in 1..T |-> col[b].outs[t]]])
                ELSE T2([t \in 1..T |-> [b \in 1..B |-> col[b].outs[t]]]),
     hidden_s |-> << <<T1([b \in 1..B |-> col[b].hc[2]])>>,
                     <<T1([b \in 1..B |-> col[b].hc[1]])>> >>]

\* The outputs and the final state, from the unrolled columns col.
LSTMResult(lstm, col, T, B) ==
    [output |-> IF lstm.batch_first
                THEN T2([b \in 1..B |-> [t \in 1..T |-> col[b].outs[t]]])
                ELSE T2([t \in 1..T |-> [b \in 1..B |-> col[b].outs[t]]]),
     hidden_s |-> << <<T1([b \in 1..B |-> col[b].hc[1]])>>,
                     <<T1([b \in 1..B |-> col[b].hc[2]])>> >>]

\* The cell run over T steps of B columns from the state h0.
LSTMUnroll(lstm, input, h0, T, B) ==
    IF Len(input[1][1]) # lstm.input_size
    THEN Raise("RuntimeError", "input.size(-1) must be equal to input_size")
    ELSE IF Len(h0) # 2 \/ Shape3(h0[1]) # <<lstm.num_layers, B, lstm.hidden_size>>
                      \/ Shape3(h0[2]) # <<lstm.num_layers, B, lstm.hidden_size>>
    THEN Raise("RuntimeError", "Expected hidden size")
    ELSE LSTMResult(lstm,
            T1([b \in 1..B |-> LSTMColumn(lstm,
                  T1([t \in 1..T |-> IF lstm.batch_first THEN input[b][t] ELSE input[t][b]]),
                  <<h0[1][1][b], h0[2][1][b]>>, <<>>)]),
            T, B)

\* self.lstm(input, hx): input is [T, B, input_size], or [B, T, input_size]
\* when batch_first; hx is None (zeros) or a pair of [1, B, hidden_size].
LSTM(lstm, input, hx) ==
    LET d0 == Len(input)
        d1 == Len(input[1])
        T == IF lstm.batch_first THEN d1 ELSE d0
        B == IF lstm.batch_first THEN d0 ELSE d1
    IN  LSTMUnroll(lstm, input,
                   IF hx = None
                   THEN <<Zeros(lstm.num_layers, B, lstm.hidden_size),
                          Zeros(lstm.num_layers, B, lstm.hidden_size)>>
                   ELSE hx, T, B)

\* torch.cat(parts, dim=-1) of [N, w] tensors.
RECURSIVE CatRow(_, _)
CatRow(parts, n) == IF parts = <<>> THEN <<>> ELSE Head(parts)[n] \o CatRow(Tail(parts), n)

Cat(parts) == T1([n \in 1..Len(parts[1]) |-> CatRow(parts, n)])

\* t.view(N, 1) of a [T, B] tensor and F.one_hot(t.view(N), classes).
Column(t) == LET flat == Flatten01(t) IN T1([n \in 1..Len(flat) |-> <<flat[n]>>])
\* A one-hot encoding whose rows run through the batch before the time.
OneHotRowsBatchMajor(t, classes) ==
    LET flat == Flatten01([b \in 1..Len(t[1]) |-> [u \in 1..Len(t) |-> t[u][b]]])
    IN  T1([n \in 1..Len(flat) |-> OneHot(flat[n], classes)])

OneHotRows(t, classes) ==
    LET flat == Flatten01(t) IN T1([n \in 1..Len(flat) |-> OneHot(flat[n], classes)])

(***************************************************************************)
(* Single-stream recurrent networks.  A forward operator returns the       *)
(* fields of the NamedTuple the code returns (q_values, hidden_s) together *)
(* with the locals core_input, advantages and values of the same call.     *)
(***************************************************************************)
MlpBody(seed, state_dim) ==
    <<Linear(seed, 1, state_dim, Units), ReLU, Linear(seed, 2, Units, Units), ReLU>>

\* The value head on the cell's result r and the [B, T, action_dim] view; an
\* exception of the cell ends the call.
ValueHead(self, core_input, r, B, T) ==
    IF Raised(r) THEN r
    ELSE [core_input |-> core_input,
          q_values |-> View(Sequential(self.value_head, Flatten01(r.output)), B, T),
          hidden_s |-> r.hidden_s]

DrqnMlpNet(state_dim, action_dim, seed) ==
    IF action_dim < 1 THEN Raise("ValueError", "action_dim")
    ELSE IF state_dim.int < 1 THEN Raise("ValueError", "state_dim")
    ELSE [cls |-> "DrqnMlpNet", action_dim |-> action_dim,
          body |-> MlpBody(seed, state_dim.int),
          lstm |-> LSTMModule(seed, 10, Units, Units, TRUE),
          value_head |-> <<Linear(seed, 5, Units, action_dim)>>]

\* A zero state with the batch on the leading axis.
DrqnMlpNetGetInitialHiddenStateTransposed(self, batch_size) ==
    <<Zeros(batch_size, self.lstm.num_layers, self.lstm.hidden_size),
      Zeros(batch_size, self.lstm.num_layers, self.lstm.hidden_size)>>

DrqnMlpNetGetInitialHiddenState(self, batch_size) ==
    <<Zeros(self.lstm.num_layers, batch_size, self.lstm.hidden_size),
      Zeros(self.lstm.num_layers, batch_size, self.lstm.hidden_size)>>

\* x is [B, T, state_shape]; hidden_s goes to the cell as given.
DrqnMlpNetForward(self, x, hidden_s) ==
    LET B == Len(x)
        T == Len(x[1])
        x1 == View(Sequential(self.body, Flatten01(x)), B, T)
    IN  ValueHead(self, x1, LSTM(self.lstm, x1, hidden_s), B, T)

DrqnConvNet(state_dim, action_dim, seed) ==
    IF action_dim < 1 THEN Raise("ValueError", "action_dim")
    ELSE IF IsInt(state_dim) THEN Raise("TypeError", "len(state_dim)")
    ELSE IF Len(state_dim.tuple) # 3 THEN Raise("ValueError", "state_dim")
    ELSE LET body == NatureCnnBackboneNet(state_dim, seed)
         IN [cls |-> "DrqnConvNet", action_dim |-> action_dim,
             body |-> body.layers,
             lstm |-> LSTMModule(seed, 10, body.out_features, Units, TRUE),
             value_head |-> <<Linear(seed, 5, Units, Units), ReLU,
                              Linear(seed, 6, Units, action_dim)>>]

DrqnConvNetGetInitialHiddenState(self, batch_size) ==
    <<Zeros(self.lstm.num_layers, batch_size, self.lstm.hidden_size),
      Zeros(self.lstm.num_layers, batch_size, self.lstm.hidden_size)>>

\* x is [B, T, state_shape]; hidden_s goes to the cell as given.
DrqnConvNetForward(self, x, hidden_s) ==
    LET B == Len(x)
        T == Len(x[1])
        x1 == View(Sequential(self.body, Float255(Flatten01(x))), B, T)
    IN  ValueHead(self, x1, LSTM(self.lstm, x1, hidden_s), B, T)

R2d2DqnMlpNet(state_dim, action_dim, seed) ==
    IF action_dim < 1 THEN Raise("ValueError", "action_dim")
    ELSE IF state_dim.int < 1 THEN Raise("ValueError", "state_dim")
    ELSE LET core_output_size == Units + action_dim + 1
    IN [cls |-> "R2d2DqnMlpNet", action_dim |-> action_dim,
          body |-> MlpBody(seed, state_dim.int),
          lstm |-> LSTMModule(seed, 10, core_output_size, Units, FALSE),
          advantage_head |-> <<Linear(seed, 3, Units, Units), ReLU,
                               Linear(seed, 4, Units, action_dim)>>,
          value_head |-> <<Linear(seed, 5, Units, Units), ReLU,
                           Linear(seed, 6, Units, 1)>>]

R2d2DqnMlpNetGetInitialHiddenState(self, batch_size) ==
    <<Zeros(self.lstm.num_layers, batch_size, self.lstm.hidden_size),
      Zeros(self.lstm.num_layers, batch_size, self.lstm.hidden_size)>>

\* Outputs with q_values viewed as [B, T, action_dim].
RnnDqnNetworkOutputsBatchFirst(core_input, advantages, values, hidden_s, T, B) ==
    [core_input |-> core_input, advantages |-> advantages, values |-> values,
     q_values |-> View(DuelingQValues(values, advantages), B, T),
     hidden_s |-> hidden_s]

\* RnnDqnNetworkOutputs(q_values, hidden_s) with q_values viewed as
\* [T, B, action_dim], and the locals of the call.
RnnDqnNetworkOutputs(core_input, advantages, values, hidden_s, T, B) ==
    [core_input |-> core_input, advantages |-> advantages, values |-> values,
     q_values |-> View(DuelingQValues(values, advantages), T, B),
     hidden_s |-> hidden_s]

\* The two heads on the cell's result r, flattened to [T*B, hidden]; an
\* exception of the cell ends the call.
DuelingHeads(self, core_input, r, T, B) ==
    IF Raised(r) THEN r
    ELSE RnnDqnNetworkOutputs(core_input,
            Sequential(self.advantage_head, Flatten01(r.output)),
            Sequential(self.value_head, Flatten01(r.output)),
            r.hidden_s, T, B)

\* A forward that appends the one-hot action before the reward.
R2d2DqnMlpNetForwardActionFirst(self, input_) ==
    LET T == Len(input_.s_t)
        B == Len(input_.s_t[1])
        x == Sequential(self.body, Flatten01(input_.s_t))
        one_hot_a_tm1 == OneHotRows(input_.a_tm1, self.action_dim)
        reward == Column(input_.r_t)
        core_input == View(Cat(<<x, one_hot_a_tm1, reward>>), T, B)
        hidden_s == IF input_.hidden_s = None
                    THEN R2d2DqnMlpNetGetInitialHiddenState(self, B)
                    ELSE input_.hidden_s
    IN  DuelingHeads(self, core_input, LSTM(self.lstm, core_input, hidden_s), T, B)

\* input_.s_t is [T, B, state_shape], the other tensors are [T, B].
R2d2DqnMlpNetForward(self, input_) ==
    LET T == Len(input_.s_t)
        B == Len(input_.s_t[1])
        x == Sequential(self.body, Flatten01(input_.s_t))
        one_hot_a_tm1 == OneHotRows(input_.a_tm1, self.action_dim)
        reward == Column(input_.r_t)
        core_input == View(Cat(<<x, reward, one_hot_a_tm1>>), T, B)
        hidden_s == IF input_.hidden_s = None
                    THEN R2d2DqnMlpNetGetInitialHiddenState(self, B)
                    ELSE input_.hidden_s
    IN  DuelingHeads(self, core_input, LSTM(self.lstm, core_input, hidden_s), T, B)

R2d2DqnConvNet(state_dim, action_dim, seed) ==
    IF action_dim < 1 THEN Raise("ValueError", "action_dim")
    ELSE IF IsInt(state_dim) THEN Raise("TypeError", "len(state_dim)")
    ELSE IF Len(state_dim.tuple) # 3 THEN Raise("ValueError", "state_dim")
    ELSE LET body == NatureCnnBackboneNet(state_dim, seed)
        core_output_size == body.out_features + action_dim + 1
    IN [cls |-> "R2d2DqnConvNet", action_dim |-> action_dim,
          body |-> body.layers,
          lstm |-> LSTMModule(seed, 10, core_output_size, Units, FALSE),
          advantage_head |-> <<Linear(seed, 3, Units, Units), ReLU,
                               Linear(seed, 4, Units, action_dim)>>,
          value_head |-> <<Linear(seed, 5, Units, Units), ReLU,
                           Linear(seed, 6, Units, 1)>>]

R2d2DqnConvNetGetInitialHiddenState(self, batch_size) ==
    <<Zeros(self.lstm.num_layers, batch_size, self.lstm.hidden_size),
      Zeros(self.lstm.num_layers, batch_size, self.lstm.hidden_size)>>

\* A forward that starts from the zero state whatever it is passed.
R2d2DqnConvNetForwardForgetful(self, input_) ==
    LET T == Len(input_.s_t)
        B == Len(input_.s_t[1])
        x == Sequential(self.body, Float255(Flatten01(input_.s_t)))
        one_hot_a_tm1 == OneHotRows(input_.a_tm1, self.action_dim)
        reward == Column(input_.r_t)
        core_input == View(Cat(<<x, reward, one_hot_a_tm1>>), T, B)
        hidden_s == R2d2DqnConvNetGetInitialHiddenState(self, B)
    IN  DuelingHeads(self, core_input, LSTM(self.lstm, core_input, hidden_s), T, B)

\* input_.s_t is [T, B, state_shape], the other tensors are [T, B].
R2d2DqnConvNetForward(self, input_) ==
    LET T == Len(input_.s_t)
        B == Len(input_.s_t[1])
        x == Sequential(self.body, Float255(Flatten01(input_.s_t)))
        one_hot_a_tm1 == OneHotRows(input_.a_tm1, self.action_dim)
        reward == Column(input_.r_t)
        core_input == View(Cat(<<x, reward, one_hot_a_tm1>>), T, B)
        hidden_s == IF input_.hidden_s = None
                    THEN R2d2DqnConvNetGetInitialHiddenState(self, B)
                    ELSE input_.hidden_s
    IN  DuelingHeads(self, core_input, LSTM(self.lstm, core_input, hidden_s), T, B)

NguDqnMlpNet(state_dim, action_dim, num_policies, seed) ==
    LET core_output_size == Units + num_policies + action_dim + 1 + 1
    IN [cls |-> "NguDqnMlpNet", action_dim |-> action_dim, num_policies |-> num_policies,
          body |-> MlpBody(seed, state_dim.int),
          lstm |-> LSTMModule(seed, 10, core_output_size, Units, FALSE),
          advantage_head |-> <<Linear(seed, 3, Units, Units), ReLU,
                               Linear(seed, 4, Units, action_dim)>>,
          value_head |-> <<Linear(seed, 5, Units, Units), ReLU,
                           Linear(seed, 6, Units, 1)>>]

\* A zero state built for one column whatever the batch.
NguDqnMlpNetGetInitialHiddenStateFixed(self, batch_size) ==
    <<Zeros(self.lstm.num_layers, 1, self.lstm.hidden_size),
      Zeros(self.lstm.num_layers, 1, self.lstm.hidden_size)>>

NguDqnMlpNetGetInitialHiddenState(self, batch_size) ==
    <<Zeros(self.lstm.num_layers, batch_size, self.lstm.hidden_size),
      Zeros(self.lstm.num_layers, batch_size, self.lstm.hidden_size)>>

\* A forward that appends beta, action, intrinsic and extrinsic reward.
NguDqnMlpNetForwardReordered(self, input_) ==
    LET T == Len(input_.s_t)
        B == Len(input_.s_t[1])
        x == Sequential(self.body, Flatten01(input_.s_t))
        one_hot_beta == OneHotRows(input_.policy_index, self.num_policies)
        one_hot_a_tm1 == OneHotRows(input_.a_tm1, self.action_dim)
        int_reward == Column(input_.int_r_t)
        ext_reward == Column(input_.ext_r_t)
        core_input == View(Cat(<<x, one_hot_beta, one_hot_a_tm1, int_reward, ext_reward>>), T, B)
        hidden_s == IF input_.hidden_s = None
                    THEN NguDqnMlpNetGetInitialHiddenState(self, B)
                    ELSE input_.hidden_s
    IN  DuelingHeads(self, core_input, LSTM(self.lstm, core_input, hidden_s), T, B)

\* input_.s_t is [T, B, state_shape], the other tensors are [T, B].
NguDqnMlpNetForward(self, input_) ==
    LET T == Len(input_.s_t)
        B == Len(input_.s_t[1])
        x == Sequential(self.body, Flatten01(input_.s_t))
        one_hot_beta == OneHotRows(input_.policy_index, self.num_policies)
        one_hot_a_tm1 == OneHotRows(input_.a_tm1, self.action_dim)
        int_reward == Column(input_.int_r_t)
        ext_reward == Column(input_.ext_r_t)
        core_input == View(Cat(<<x, ext_reward, one_hot_a_tm1, int_reward, one_hot_beta>>), T, B)
        hidden_s == IF input_.hidden_s = None
                    THEN NguDqnMlpNetGetInitialHiddenState(self, B)
                    ELSE input_.hidden_s
    IN  DuelingHeads(self, core_input, LSTM(self.lstm, core_input, hidden_s), T, B)

NguDqnConvNet(state_dim, action_dim, num_policies, seed) ==
    LET body == NatureCnnBackboneNet(state_dim, seed)
        core_output_size == body.out_features + num_policies + action_dim + 1 + 1
    IN [cls |-> "NguDqnConvNet", action_dim |-> action_dim, num_policies |-> num_policies,
          body |-> body.layers,
          lstm |-> LSTMModule(seed, 10, core_output_size, Units, FALSE),
          advantage_head |-> <<Linear(seed, 3, Units, Units), ReLU,
                               Linear(seed, 4, Units, action_dim)>>,
          value_head |-> <<Linear(seed, 5, Units, Units), ReLU,
                           Linear(seed, 6, Units, 1)>>]

NguDqnConvNetGetInitialHiddenState(self, batch_size) ==
    <<Zeros(self.lstm.num_layers, batch_size, self.lstm.hidden_size),
      Zeros(self.lstm.num_layers, batch_size, self.lstm.hidden_size)>>

\* input_.s_t is [T, B, state_shape], the other tensors are [T, B].
NguDqnConvNetForward(self, input_) ==
    LET T == Len(input_.s_t)
        B == Len(input_.s_t[1])
        x == Sequential(self.body, Float255(Flatten01(input_.s_t)))
        one_hot_beta == OneHotRows(input_.policy_index, self.num_policies)
        one_hot_a_tm1 == OneHotRows(input_.a_tm1, self.action_dim)
        int_reward == Column(input_.int_r_t)
        ext_reward == Column(input_.ext_r_t)
        core_input == View(Cat(<<x, ext_reward, one_hot_a_tm1, int_reward, one_hot_beta>>), T, B)
        hidden_s == IF input_.hidden_s = None
                    THEN NguDqnConvNetGetInitialHiddenState(self, B)
                    ELSE input_.hidden_s
    IN  DuelingHeads(self, core_input, LSTM(self.lstm, core_input, hidden_s), T, B)

(***************************************************************************)
(* Agent57: two NGU networks, one per reward stream.                       *)
(***************************************************************************)
Agent57Conv2dNet(state_dim, action_dim, num_policies, ext_seed, int_seed) ==
    [cls |-> "Agent57Conv2dNet",
     ext_q |-> NguDqnConvNet(state_dim, action_dim, num_policies, ext_seed),
     int_q |-> NguDqnConvNet(state_dim, action_dim, num_policies, int_seed)]

\* torch.clone copies a tensor: the copy has the same entries.
Clone(t) == t

\* Outputs with the two streams' results exchanged.
Agent57NetworkOutputsSwapped(ext_input, int_input, ext_output, int_output) ==
    IF Raised(ext_output) THEN ext_output
    ELSE IF Raised(int_output) THEN int_output
    ELSE [ext_input |-> ext_input, int_input |-> int_input,
          ext_q_values |-> int_output.q_values, int_q_values |-> ext_output.q_values,
          ext_hidden_s |-> int_output.hidden_s, int_hidden_s |-> ext_output.hidden_s]

\* Agent57NetworkOutputs from the two sub-networks' outputs, with the two
\* NguNetworkInputs of the call; an exception of either sub-network ends it.
Agent57NetworkOutputs(ext_input, int_input, ext_output, int_output) ==
    IF Raised(ext_output) THEN ext_output
    ELSE IF Raised(int_output) THEN int_output
    ELSE [ext_input |-> ext_input, int_input |-> int_input,
          ext_q_values |-> ext_output.q_values, int_q_values |-> int_output.q_values,
          ext_hidden_s |-> ext_output.hidden_s, int_hidden_s |-> int_output.hidden_s]

\* A forward whose intrinsic stream starts from the extrinsic memory.
Agent57Conv2dNetForwardShared(self, input_) ==
    LET ext_input == [s_t |-> Clone(input_.s_t), a_tm1 |-> Clone(input_.a_tm1),
                      ext_r_t |-> Clone(input_.ext_r_t), int_r_t |-> Clone(input_.int_r_t),
                      policy_index |-> Clone(input_.policy_index),
                      hidden_s |-> input_.ext_hidden_s]
        int_input == [s_t |-> input_.s_t, a_tm1 |-> input_.a_tm1,
                      ext_r_t |-> input_.ext_r_t, int_r_t |-> input_.int_r_t,
                      policy_index |-> input_.policy_index,
                      hidden_s |-> input_.ext_hidden_s]
    IN  Agent57NetworkOutputs(ext_input, int_input,
                              NguDqnConvNetForward(self.ext_q, ext_input),
                              NguDqnConvNetForward(self.int_q, int_input))

\* The two NguNetworkInputs forward builds and the outputs it returns.
Agent57Conv2dNetForward(self, input_) ==
    LET ext_input == [s_t |-> Clone(input_.s_t), a_tm1 |-> Clone(input_.a_tm1),
                      ext_r_t |-> Clone(input_.ext_r_t), int_r_t |-> Clone(input_.int_r_t),
                      policy_index |-> Clone(input_.policy_index),
                      hidden_s |-> input_.ext_hidden_s]
        int_input == [s_t |-> input_.s_t, a_tm1 |-> input_.a_tm1,
                      ext_r_t |-> input_.ext_r_t, int_r_t |-> input_.int_r_t,
                      policy_index |-> input_.policy_index,
                      hidden_s |-> input_.int_hidden_s]
    IN  Agent57NetworkOutputs(ext_input, int_input,
                              NguDqnConvNetForward(self.ext_q, ext_input),
                              NguDqnConvNetForward(self.int_q, int_input))

\* The states of the two sub-networks as the pair (ext_state, int_state).
Agent57Conv2dNetGetInitialHiddenState(self, batch_size) ==
    LET ext_state == NguDqnConvNetGetInitialHiddenState(self.ext_q, batch_size)
        int_state == NguDqnConvNetGetInitialHiddenState(self.int_q, batch_size)
    IN  <<ext_state, int_state>>

\* Tensors as objects: torch.zeros makes a new tensor on every call.  The
\* tensors of a tuple are stored at the next addresses of the heap h, with the
\* sub-network whose method made them; refs holds their addresses in order.
Allocate(h, tensors, by) ==
    [refs |-> [k \in 1..Len(tensors) |-> Len(h) + k],
     heap |-> h \o [k \in 1..Len(tensors) |-> [data |-> tensors[k], by |-> by]]]

\* A method that hands out the extrinsic state for both streams.
Agent57Conv2dNetInitialStateShared(self, batch_size, h) ==
    LET ext_state == Allocate(h, NguDqnConvNetGetInitialHiddenState(self.ext_q, batch_size),
                              "ext_q")
    IN  [state |-> <<ext_state.refs, ext_state.refs>>, heap |-> ext_state.heap]

\* get_initial_hidden_state with the tensors it returns as objects.
Agent57Conv2dNetInitialState(self, batch_size, h) ==
    LET ext_state == Allocate(h, NguDqnConvNetGetInitialHiddenState(self.ext_q, batch_size),
                              "ext_q")
        int_state == Allocate(ext_state.heap,
                              NguDqnConvNetGetInitialHiddenState(self.int_q, batch_size),
                              "int_q")
    IN  [state |-> <<ext_state.refs, int_state.refs>>, heap |-> int_state.heap]

(***************************************************************************)
(* The inputs a caller supplies.  The tensors of a call are zero except    *)
(* for some entries ("spikes"); over a whole run at most MaxWeight entries *)
(* are nonzero (spent counts them).  Every shape up to MaxTime x MaxBatch  *)
(* occurs.  An image observation holds pixels, multiples of Pixel.         *)
(***************************************************************************)
MaxWeight == 1

RECURSIVE UpTo(_, _)
UpTo(S, k) ==
    IF k = 0 THEN {{}}
    ELSE LET fewer == UpTo(S, k - 1)
         IN  fewer \cup {p \cup {e} : p \in fewer, e \in S}

\* <<field, t, b, i, value>>
Spikes(fields, T, B, action_dim, num_policies) ==
    UNION {
        IF f = "s_t" THEN {<<f, t, b, i, v>> : t \in 1..T, b \in 1..B,
                                i \in 1..StateWidth, v \in ObsValues \ {0}}
        ELSE IF f = "a_tm1" THEN {<<f, t, b, 1, v>> : t \in 1..T, b \in 1..B,
                                v \in 1..(action_dim - 1)}
        ELSE IF f = "policy_index" THEN {<<f, t, b, 1, v>> : t \in 1..T, b \in 1..B,
                                v \in 1..(num_policies - 1)}
        ELSE {<<f, t, b, 1, v>> : t \in 1..T, b \in 1..B, v \in RewardValues \ {0}}
      : f \in fields}

SpikeSets(fields, T, B, action_dim, num_policies) ==
    {sp \in UpTo(Spikes(fields, T, B, action_dim, num_policies), MaxWeight - spent) :
        \A p, q \in sp : (p[1] = q[1] /\ p[2] = q[2] /\ p[3] = q[3] /\ p[4] = q[4]) => p = q}

Entry(sp, f, t, b, i) ==
    LET m == {p \in sp : p[1] = f /\ p[2] = t /\ p[3] = b /\ p[4] = i}
    IN  IF m = {} THEN 0 ELSE (CHOOSE p \in m : TRUE)[5]

\* A [T, B] tensor, and the observations as [T, B, state] or [B, T, state].
Field(sp, f, T, B) == T2([t \in 1..T |-> [b \in 1..B |-> Entry(sp, f, t, b, 1)]])
Obs(sp, T, B, scale) ==
    T3([t \in 1..T |-> [b \in 1..B |-> [i \in 1..StateWidth |-> scale * Entry(sp, "s_t", t, b, i)]]])
ObsBatchFirst(sp, T, B, scale) ==
    T3([b \in 1..B |-> [t \in 1..T |-> [i \in 1..StateWidth |-> scale * Entry(sp, "s_t", t, b, i)]]])

R2d2Fields == {"s_t", "a_tm1", "r_t"}
R2d2Tensors(sp, T, B, scale) ==
    [s_t |-> Obs(sp, T, B, scale), a_tm1 |-> Field(sp, "a_tm1", T, B),
     r_t |-> Field(sp, "r_t", T, B)]

NguFields == {"s_t", "a_tm1", "ext_r_t", "int_r_t", "policy_index"}
NguTensors(sp, T, B, scale) ==
    [s_t |-> Obs(sp, T, B, scale), a_tm1 |-> Field(sp, "a_tm1", T, B),
     ext_r_t |-> Field(sp, "ext_r_t", T, B), int_r_t |-> Field(sp, "int_r_t", T, B),
     policy_index |-> Field(sp, "policy_index", T, B)]

\* The recurrent states a caller may pass for a batch of B columns: none, or
\* the state it holds when that state has B columns.
Passable(B) == {None} \cup (IF hidden # None /\ Len(hidden[1][1]) = B THEN {hidden} ELSE {})

(***************************************************************************)
(* The networks a program may have constructed.                            *)
(***************************************************************************)
Vector == PyInt(StateWidth)
Image == PyTuple(<<1, 1, StateWidth>>)
StateDims == {Vector, Image}
Seeds == 0..MaxSeed
ActionDims == 0..MaxActionDim
Supports == {Tensor1(T1([k \in 1..K |-> k - 1])) : K \in 1..MaxAtoms}

FeedForwardNets ==
    {m \in {DuelingDqnMlpNet(Vector, a, s) : a \in ActionDims, s \in Seeds}
       \cup {DuelingDqnConvNet(d, a, s) : d \in StateDims, a \in ActionDims, s \in Seeds}
       \cup {RainbowDqnMlpNet(Vector, a, z, s) : a \in ActionDims, z \in Supports, s \in Seeds}
       \cup {RainbowDqnConvNet(d, a, z, s) :
                d \in StateDims, a \in ActionDims, z \in Supports, s \in Seeds}
       \cup {DqnMlpNet(Vector, a, s) : a \in ActionDims, s \in Seeds}
       \cup {DqnConvNet(d, a, s) : d \in StateDims, a \in ActionDims, s \in Seeds}
       \cup {C51DqnMlpNet(Vector, a, z, s) : a \in ActionDims, z \in Supports, s \in Seeds}
       \cup {C51DqnConvNet(d, a, z, s) :
                d \in StateDims, a \in ActionDims, z \in Supports, s \in Seeds}
       \cup {QRDqnMlpNet(Vector, a, z, s) : a \in ActionDims, z \in Supports, s \in Seeds}
       \cup {QRDqnConvNet(d, a, z, s) :
                d \in StateDims, a \in ActionDims, z \in Supports, s \in Seeds}
     : ~Raised(m)}

RecurrentNets ==
    {m \in {DrqnMlpNet(Vector, a, s) : a \in ActionDims, s \in Seeds}
       \cup {DrqnConvNet(d, a, s) : d \in StateDims, a \in ActionDims, s \in Seeds}
       \cup {R2d2DqnMlpNet(Vector, a, s) : a \in ActionDims, s \in Seeds}
       \cup {R2d2DqnConvNet(d, a, s) : d \in StateDims, a \in ActionDims, s \in Seeds}
       \cup {NguDqnMlpNet(Vector, a, p, s) :
                a \in 1..MaxActionDim, p \in 1..MaxPolicies, s \in Seeds}
       \cup {NguDqnConvNet(Image, a, p, s) :
                a \in 1..MaxActionDim, p \in 1..MaxPolicies, s \in Seeds}
     : ~Raised(m)}

Agent57Nets ==
    {Agent57Conv2dNet(Image, MaxActionDim, MaxPolicies, ext_seed, int_seed) :
        ext_seed \in Seeds, int_seed \in Seeds}

(***************************************************************************)
(* Feed-forward calls.                                                     *)
(***************************************************************************)
CallDuelingDqnMlpNet ==
    /\ net.cls = "DuelingDqnMlpNet"
    /\ calls < MaxCalls
    /\ \E B \in 1..MaxBatch : \E sp \in SpikeSets({"s_t"}, 1, B, 1, 1) :
          \E x \in {Obs(sp, 1, B, 1)[1]} : \E r \in {DuelingDqnMlpNetForward(net, x)} :
              /\ inp' = [x |-> x]
              /\ out' = [q_values |-> r.q_values]
              /\ spent' = spent + Cardinality(sp)
    /\ calls' = calls + 1
    /\ prev' = [inp |-> inp, out |-> out]
    /\ UNCHANGED <<net, hidden, twin, resets, heap>>

CallDuelingDqnConvNet ==
    /\ net.cls = "DuelingDqnConvNet"
    /\ calls < MaxCalls
    /\ \E B \in 1..MaxBatch : \E sp \in SpikeSets({"s_t"}, 1, B, 1, 1) :
          \E x \in {Obs(sp, 1, B, Pixel)[1]} : \E r \in {DuelingDqnConvNetForward(net, x)} :
              /\ inp' = [x |-> x]
              /\ out' = [q_values |-> r.q_values]
              /\ spent' = spent + Cardinality(sp)
    /\ calls' = calls + 1
    /\ prev' = [inp |-> inp, out |-> out]
    /\ UNCHANGED <<net, hidden, twin, resets, heap>>

CallRainbowDqnMlpNet ==
    /\ net.cls = "RainbowDqnMlpNet"
    /\ calls < MaxCalls
    /\ \E B \in 1..MaxBatch : \E sp \in SpikeSets({"s_t"}, 1, B, 1, 1) :
          \E x \in {Obs(sp, 1, B, 1)[1]} : \E r \in {RainbowDqnMlpNetForward(net, x)} :
              /\ inp' = [x |-> x]
              /\ out' = [q_values |-> r.q_values, q_logits |-> r.q_logits]
              /\ spent' = spent + Cardinality(sp)
    /\ calls' = calls + 1
    /\ prev' = [inp |-> inp, out |-> out]
    /\ UNCHANGED <<net, hidden, twin, resets, heap>>

CallRainbowDqnConvNet ==
    /\ net.cls = "RainbowDqnConvNet"
    /\ calls < MaxCalls
    /\ \E B \in 1..MaxBatch : \E sp \in SpikeSets({"s_t"}, 1, B, 1, 1) :
          \E x \in {Obs(sp, 1, B, Pixel)[1]} : \E r \in {RainbowDqnConvNetForward(net, x)} :
              /\ inp' = [x |-> x]
              /\ out' = [q_values |-> r.q_values, q_logits |-> r.q_logits]
              /\ spent' = spent + Cardinality(sp)
    /\ calls' = calls + 1
    /\ prev' = [inp |-> inp, out |-> out]
    /\ UNCHANGED <<net, hidden, twin, resets, heap>>

(***************************************************************************)
(* Calls of the single-head feed-forward networks.  The declared           *)
(* observation of an MLP network is [B, state_dim]; a caller may also hand *)
(* it a tensor with a time axis, [B, T, state_dim].  An image observation  *)
(* [B, C, H, W] is held with its pixels flattened.                         *)
(***************************************************************************)
VectorShapes ==
    {<<B, StateWidth>> : B \in 1..MaxBatch}
      \cup {<<B, T, StateWidth>> : B \in 1..MaxBatch, T \in 1..MaxTime}

TimeOf(shape) == IF Len(shape) = 2 THEN 1 ELSE shape[2]

VectorObs(sp, shape) ==
    IF Len(shape) = 2 THEN Tensor(shape, Obs(sp, 1, shape[1], 1)[1])
    ELSE Tensor(shape, ObsBatchFirst(sp, shape[2], shape[1], 1))

ImageObs(sp, B) == Tensor(<<B, 1, 1, StateWidth>>, Obs(sp, 1, B, Pixel)[1])

CallDqnMlpNet ==
    /\ net.cls = "DqnMlpNet"
    /\ calls < MaxCalls
    /\ \E shape \in VectorShapes : \E sp \in SpikeSets({"s_t"}, TimeOf(shape), shape[1], 1, 1) :
          \E x \in {VectorObs(sp, shape)} : \E r \in {DqnMlpNetForward(net, x)} :
              /\ inp' = [x |-> x]
              /\ out' = [q_values |-> r.q_values]
              /\ spent' = spent + Cardinality(sp)
    /\ calls' = calls + 1
    /\ prev' = [inp |-> inp, out |-> out]
    /\ UNCHANGED <<net, hidden, twin, resets, heap>>

CallDqnConvNet ==
    /\ net.cls = "DqnConvNet"
    /\ calls < MaxCalls
    /\ \E B \in 1..MaxBatch : \E sp \in SpikeSets({"s_t"}, 1, B, 1, 1) :
          \E x \in {ImageObs(sp, B)} : \E r \in {DqnConvNetForward(net, x)} :
              /\ inp' = [x |-> x]
              /\ out' = [q_values |-> r.q_values]
              /\ spent' = spent + Cardinality(sp)
    /\ calls' = calls + 1
    /\ prev' = [inp |-> inp, out |-> out]
    /\ UNCHANGED <<net, hidden, twin, resets, heap>>

CallC51DqnMlpNet ==
    /\ net.cls = "C51DqnMlpNet"
    /\ calls < MaxCalls
    /\ \E shape \in VectorShapes : \E sp \in SpikeSets({"s_t"}, TimeOf(shape), shape[1], 1, 1) :
          \E x \in {VectorObs(sp, shape)} : \E r \in {C51DqnMlpNetForward(net, x)} :
              /\ inp' = [x |-> x]
              /\ out' = [q_values |-> r.q_values, q_logits |-> r.q_logits]
              /\ spent' = spent + Cardinality(sp)
    /\ calls' = calls + 1
    /\ prev' = [inp |-> inp, out |-> out]
    /\ UNCHANGED <<net, hidden, twin, resets, heap>>

CallC51DqnConvNet ==
    /\ net.cls = "C51DqnConvNet"
    /\ calls < MaxCalls
    /\ \E B \in 1..MaxBatch : \E sp \in SpikeSets({"s_t"}, 1, B, 1, 1) :
          \E x \in {ImageObs(sp, B)} : \E r \in {C51DqnConvNetForward(net, x)} :
              /\ inp' = [x |-> x]
              /\ out' = [q_values |-> r.q_values, q_logits |-> r.q_logits]
              /\ spent' = spent + Cardinality(sp)
    /\ calls' = calls + 1
    /\ prev' = [inp |-> inp, out |-> out]
    /\ UNCHANGED <<net, hidden, twin, resets, heap>>

CallQRDqnMlpNet ==
    /\ net.cls = "QRDqnMlpNet"
    /\ calls < MaxCalls
    /\ \E shape \in VectorShapes : \E sp \in SpikeSets({"s_t"}, TimeOf(shape), shape[1], 1, 1) :
          \E x \in {VectorObs(sp, shape)} : \E r \in {QRDqnMlpNetForward(net, x)} :
              /\ inp' = [x |-> x]
              /\ out' = [q_values |-> r.q_values, q_dist |-> r.q_dist]
              /\ spent' = spent + Cardinality(sp)
    /\ calls' = calls + 1
    /\ prev' = [inp |-> inp, out |-> out]
    /\ UNCHANGED <<net, hidden, twin, resets, heap>>

CallQRDqnConvNet ==
    /\ net.cls = "QRDqnConvNet"
    /\ calls < MaxCalls
    /\ \E B \in 1..MaxBatch : \E sp \in SpikeSets({"s_t"}, 1, B, 1, 1) :
          \E x \in {ImageObs(sp, B)} : \E r \in {QRDqnConvNetForward(net, x)} :
              /\ inp' = [x |-> x]
              /\ out' = [q_values |-> r.q_values, q_dist |-> r.q_dist]
              /\ spent' = spent + Cardinality(sp)
    /\ calls' = calls + 1
    /\ prev' = [inp |-> inp, out |-> out]
    /\ UNCHANGED <<net, hidden, twin, resets, heap>>

(***************************************************************************)
(* Recurrent calls.  The caller owns the recurrent state: hidden is the    *)
(* state it holds, obtained from get_initial_hidden_state or returned by   *)
(* the last call; it passes that state or None.                            *)
(***************************************************************************)
Returned(r) ==
    IF Raised(r) THEN r ELSE [q_values |-> r.q_values, hidden_s |-> r.hidden_s]

CallDrqnMlpNet ==
    /\ net.cls = "DrqnMlpNet"
    /\ calls < MaxCalls
    /\ \E T \in 1..MaxTime, B \in 1..MaxBatch :
       \E sp \in SpikeSets({"s_t"}, T, B, 1, 1) : \E hidden_s \in Passable(B) :
          \E x \in {ObsBatchFirst(sp, T, B, 1)} :
          \E r \in {DrqnMlpNetForward(net, x, hidden_s)} :
              /\ inp' = [x |-> x, hidden_s |-> hidden_s]
              /\ out' = Returned(r)
              /\ hidden' = IF Raised(r) THEN hidden ELSE r.hidden_s
              /\ spent' = spent + Cardinality(sp)
    /\ calls' = calls + 1
    /\ prev' = [inp |-> inp, out |-> out]
    /\ UNCHANGED <<net, twin, resets, heap>>

CallDrqnConvNet ==
    /\ net.cls = "DrqnConvNet"
    /\ calls < MaxCalls
    /\ \E T \in 1..MaxTime, B \in 1..MaxBatch :
       \E sp \in SpikeSets({"s_t"}, T, B, 1, 1) : \E hidden_s \in Passable(B) :
          \E x \in {ObsBatchFirst(sp, T, B, Pixel)} :
          \E r \in {DrqnConvNetForward(net, x, hidden_s)} :
              /\ inp' = [x |-> x, hidden_s |-> hidden_s]
              /\ out' = Returned(r)
              /\ hidden' = IF Raised(r) THEN hidden ELSE r.hidden_s
              /\ spent' = spent + Cardinality(sp)
    /\ calls' = calls + 1
    /\ prev' = [inp |-> inp, out |-> out]
    /\ UNCHANGED <<net, twin, resets, heap>>

\* A call of a network that keeps the last returned state and starts from it
\* when it is passed None.
CallR2d2DqnMlpNetRetaining ==
    /\ net.cls = "R2d2DqnMlpNet"
    /\ calls < MaxCalls
    /\ \E T \in 1..MaxTime, B \in 1..MaxBatch :
       \E sp \in SpikeSets(R2d2Fields, T, B, net.action_dim, 1) :
       \E hidden_s \in Passable(B) :
          \E input_ \in {R2d2Tensors(sp, T, B, 1) @@ [hidden_s |-> hidden_s]} :
          \E r \in {R2d2DqnMlpNetForward(net,
                    IF hidden # None /\ Len(hidden[1][1]) = B
                    THEN [input_ EXCEPT !.hidden_s = hidden] ELSE input_)} :
              /\ inp' = input_
              /\ out' = Returned(r)
              /\ hidden' = IF Raised(r) THEN hidden ELSE r.hidden_s
              /\ spent' = spent + Cardinality(sp)
    /\ calls' = calls + 1
    /\ prev' = [inp |-> inp, out |-> out]
    /\ UNCHANGED <<net, twin, resets, heap>>

CallR2d2DqnMlpNet ==
    /\ net.cls = "R2d2DqnMlpNet"
    /\ calls < MaxCalls
    /\ \E T \in 1..MaxTime, B \in 1..MaxBatch :
       \E sp \in SpikeSets(R2d2Fields, T, B, net.action_dim, 1) :
       \E hidden_s \in Passable(B) :
          \E input_ \in {R2d2Tensors(sp, T, B, 1) @@ [hidden_s |-> hidden_s]} :
          \E r \in {R2d2DqnMlpNetForward(net, input_)} :
              /\ inp' = input_
              /\ out' = Returned(r)
              /\ hidden' = IF Raised(r) THEN hidden ELSE r.hidden_s
              /\ spent' = spent + Cardinality(sp)
    /\ calls' = calls + 1
    /\ prev' = [inp |-> inp, out |-> out]
    /\ UNCHANGED <<net, twin, resets, heap>>

CallR2d2DqnConvNet ==
    /\ net.cls = "R2d2DqnConvNet"
    /\ calls < MaxCalls
    /\ \E T \in 1..MaxTime, B \in 1..MaxBatch :
       \E sp \in SpikeSets(R2d2Fields, T, B, net.action_dim, 1) :
       \E hidden_s \in Passable(B) :
          \E input_ \in {R2d2Tensors(sp, T, B, Pixel) @@ [hidden_s |-> hidden_s]} :
          \E r \in {R2d2DqnConvNetForward(net, input_)} :
              /\ inp' = input_
              /\ out' = Returned(r)
              /\ hidden' = IF Raised(r) THEN hidden ELSE r.hidden_s
              /\ spent' = spent + Cardinality(sp)
    /\ calls' = calls + 1
    /\ prev' = [inp |-> inp, out |-> out]
    /\ UNCHANGED <<net, twin, resets, heap>>

CallNguDqnMlpNet ==
    /\ net.cls = "NguDqnMlpNet"
    /\ calls < MaxCalls
    /\ \E T \in 1..MaxTime, B \in 1..MaxBatch :
       \E sp \in SpikeSets(NguFields, T, B, net.action_dim, net.num_policies) :
       \E hidden_s \in Passable(B) :
          \E input_ \in {NguTensors(sp, T, B, 1) @@ [hidden_s |-> hidden_s]} :
          \E r \in {NguDqnMlpNetForward(net, input_)} :
              /\ inp' = input_
              /\ out' = Returned(r)
              /\ hidden' = IF Raised(r) THEN hidden ELSE r.hidden_s
              /\ spent' = spent + Cardinality(sp)
    /\ calls' = calls + 1
    /\ prev' = [inp |-> inp, out |-> out]
    /\ UNCHANGED <<net, twin, resets, heap>>

CallNguDqnConvNet ==
    /\ net.cls = "NguDqnConvNet"
    /\ calls < MaxCalls
    /\ \E T \in 1..MaxTime, B \in 1..MaxBatch :
       \E sp \in SpikeSets(NguFields, T, B, net.action_dim, net.num_policies) :
       \E hidden_s \in Passable(B) :
          \E input_ \in {NguTensors(sp, T, B, Pixel) @@ [hidden_s |-> hidden_s]} :
          \E r \in {NguDqnConvNetForward(net, input_)} :
              /\ inp' = input_
              /\ out' = Returned(r)
              /\ hidden' = IF Raised(r) THEN hidden ELSE r.hidden_s
              /\ spent' = spent + Cardinality(sp)
    /\ calls' = calls + 1
    /\ prev' = [inp |-> inp, out |-> out]
    /\ UNCHANGED <<net, twin, resets, heap>>

\* get_initial_hidden_state of the network's class.
GetInitialHiddenState(self, batch_size) ==
    CASE self.cls = "DrqnMlpNet" -> DrqnMlpNetGetInitialHiddenState(self, batch_size)
      [] self.cls = "DrqnConvNet" -> DrqnConvNetGetInitialHiddenState(self, batch_size)
      [] self.cls = "R2d2DqnMlpNet" -> R2d2DqnMlpNetGetInitialHiddenState(self, batch_size)
      [] self.cls = "R2d2DqnConvNet" -> R2d2DqnConvNetGetInitialHiddenState(self, batch_size)
      [] self.cls = "NguDqnMlpNet" -> NguDqnMlpNetGetInitialHiddenState(self, batch_size)
      [] self.cls = "NguDqnConvNet" -> NguDqnConvNetGetInitialHiddenState(self, batch_size)

\* A caller that holds no state asks for a zero state.
CallGetInitialHiddenState ==
    /\ "lstm" \in DOMAIN net
    /\ hidden = None
    /\ \E batch_size \in 1..MaxBatch : hidden' = GetInitialHiddenState(net, batch_size)
    /\ UNCHANGED <<net, inp, out, calls, spent, twin, prev, resets, heap>>

(***************************************************************************)
(* Agent57 calls.  The caller threads both returned states back into the   *)
(* same-named fields.  Beside the caller's run the model carries a twin    *)
(* run of the same network on the same tensors in which one stream's       *)
(* memory (twin.varies) is replaced at every call by a memory of the       *)
(* caller's choosing, while the other stream's memory is threaded.         *)
(***************************************************************************)
Full(d0, d1, d2, v) == T3([l \in 1..d0 |-> [b \in 1..d1 |-> [j \in 1..d2 |-> v]]])

\* The memories a twin run may be given for a batch of B columns.
Memories(self, B, held) ==
    {None, <<Full(1, B, self.lstm.hidden_size, 1), Full(1, B, self.lstm.hidden_size, 1)>>}
      \cup (IF held # None /\ Len(held[1][1]) = B THEN {held} ELSE {})

Returned57(r) ==
    IF Raised(r) THEN r
    ELSE [ext_q_values |-> r.ext_q_values, int_q_values |-> r.int_q_values,
          ext_hidden_s |-> r.ext_hidden_s, int_hidden_s |-> r.int_hidden_s]

Held57(r, held) ==
    IF Raised(r) THEN held
    ELSE [ext_hidden_s |-> r.ext_hidden_s, int_hidden_s |-> r.int_hidden_s]

CallAgent57Conv2dNet ==
    /\ net.cls = "Agent57Conv2dNet"
    /\ calls < MaxCalls
    /\ \E T \in 1..MaxTime, B \in 1..MaxBatch :
       \E sp \in SpikeSets(NguFields, T, B, net.ext_q.action_dim, net.ext_q.num_policies) :
       \E memory \in Memories(net.ext_q, B, twin.hidden[twin.varies]) :
          \E input_ \in {NguTensors(sp, T, B, Pixel) @@ hidden} :
          \E twin_input \in {[(NguTensors(sp, T, B, Pixel) @@ twin.hidden)
                                  EXCEPT ![twin.varies] = memory]} :
          \E r \in {Agent57Conv2dNetForward(net, input_)} :
          \E s \in {Agent57Conv2dNetForward(net, twin_input)} :
              /\ inp' = input_
              /\ out' = Returned57(r)
              /\ hidden' = Held57(r, hidden)
              /\ twin' = [twin EXCEPT !.inp = twin_input, !.out = Returned57(s),
                                      !.hidden = Held57(s, twin.hidden)]
              /\ spent' = spent + Cardinality(sp)
    /\ calls' = calls + 1
    /\ prev' = [inp |-> inp, out |-> out]
    /\ UNCHANGED <<net, resets, heap>>

NoMemory == [ext_hidden_s |-> None, int_hidden_s |-> None]

InitAgent57 ==
    /\ net \in Agent57Nets
    /\ inp = Nothing /\ out = Nothing /\ hidden = NoMemory /\ calls = 0 /\ spent = 0 /\ prev = Nothing
    /\ resets = <<>> /\ heap = <<>>
    /\ twin \in {[varies |-> v, hidden |-> NoMemory, inp |-> Nothing, out |-> Nothing] :
                    v \in {"ext_hidden_s", "int_hidden_s"}}

InitFeedForward ==
    /\ net \in FeedForwardNets
    /\ inp = Nothing /\ out = Nothing /\ hidden = None /\ calls = 0 /\ spent = 0 /\ prev = Nothing
    /\ resets = <<>> /\ heap = <<>>
    /\ twin = Nothing

InitRecurrent ==
    /\ net \in RecurrentNets
    /\ inp = Nothing /\ out = Nothing /\ hidden = None /\ calls = 0 /\ spent = 0 /\ prev = Nothing
    /\ resets = <<>> /\ heap = <<>>
    /\ twin = Nothing

Init == InitFeedForward \/ InitRecurrent \/ InitAgent57

NextFeedForward ==
    \/ CallDuelingDqnMlpNet
    \/ CallDuelingDqnConvNet
    \/ CallRainbowDqnMlpNet
    \/ CallRainbowDqnConvNet
    \/ CallDqnMlpNet
    \/ CallDqnConvNet
    \/ CallC51DqnMlpNet
    \/ CallC51DqnConvNet
    \/ CallQRDqnMlpNet
    \/ CallQRDqnConvNet

NextRecurrent ==
    \/ CallDrqnMlpNet
    \/ CallDrqnConvNet
    \/ CallR2d2DqnMlpNet
    \/ CallR2d2DqnConvNet
    \/ CallNguDqnMlpNet
    \/ CallNguDqnConvNet
    \/ CallGetInitialHiddenState

NextAgent57 == CallAgent57Conv2dNet

Next == NextFeedForward \/ NextRecurrent \/ NextAgent57

Spec == Init /\ [][Next]_vars

\* The runs of one family of networks.
SpecFeedForward == InitFeedForward /\ [][NextFeedForward]_vars
SpecRecurrent == InitRecurrent /\ [][NextRecurrent]_vars
SpecAgent57 == InitAgent57 /\ [][NextAgent57]_vars

(***************************************************************************)
(* Noise of the Rainbow networks.  A layer built by a constructor holds    *)
(* noise sample 1; reset_noise draws later samples.  A program may assign  *)
(* a head of another depth to a constructed network (attribute assignment  *)
(* on an nn.Module registers the new submodule).                           *)
(***************************************************************************)
MaxNoise == 2
MaxDepth == 3
FreshNoise == 2..MaxNoise

\* nn.Sequential of depth noisy layers with nn.ReLU between them.
NoisyHead(id, in_features, out_features, depth) ==
    [i \in 1..(2 * depth - 1) |->
        IF i % 2 = 0 THEN ReLU
        ELSE IF i = 2 * depth - 1
             THEN NoisyLinear(1, id + 1, IF depth = 1 THEN in_features ELSE Units,
                              out_features, 1)
        ELSE NoisyLinear(1, id + 5 * (i - 1), IF i = 1 THEN in_features ELSE Units,
                         Units, 1)] \o <<>>

AssignHead ==
    /\ net.cls \in {"RainbowDqnMlpNet", "RainbowDqnConvNet"}
    /\ \E head \in {"advantage_head", "value_head"}, depth \in 1..MaxDepth :
          net' = [net EXCEPT ![head] =
                    NoisyHead(IF head = "advantage_head" THEN 3 ELSE 5,
                              net[head][1].in_features,
                              net[head][Len(net[head])].out_features, depth)]
    /\ UNCHANGED <<inp, out, hidden, calls, spent, twin, prev, resets, heap>>

CallRainbowDqnMlpNetResetNoise ==
    /\ net.cls = "RainbowDqnMlpNet"
    /\ \E samples \in [1..Len(ResetNoiseCalls(net)) -> FreshNoise] :
       \E r \in {RainbowDqnMlpNetResetNoise(net, samples)} :
          /\ net' = r.self
          /\ resets' = r.order
    /\ UNCHANGED <<inp, out, hidden, calls, spent, twin, prev, heap>>

CallRainbowDqnConvNetResetNoise ==
    /\ net.cls = "RainbowDqnConvNet"
    /\ \E samples \in [1..Len(ResetNoiseCalls(net)) -> FreshNoise] :
       \E r \in {RainbowDqnConvNetResetNoise(net, samples)} :
          /\ net' = r.self
          /\ resets' = r.order
    /\ UNCHANGED <<inp, out, hidden, calls, spent, twin, prev, heap>>

NoisyNets ==
    {m \in {RainbowDqnMlpNet(Vector, MaxActionDim, z, s) : z \in Supports, s \in Seeds}
       \cup {RainbowDqnConvNet(Image, MaxActionDim, z, s) : z \in Supports, s \in Seeds}
     : ~Raised(m)}

InitNoisy ==
    /\ net \in NoisyNets
    /\ inp = Nothing /\ out = Nothing /\ hidden = None /\ calls = 0 /\ spent = 0 /\ prev = Nothing
    /\ resets = <<>> /\ heap = <<>>
    /\ twin = Nothing

\* The runs of reset_noise on a network whose heads a program may replace.
NextNoisy ==
    \/ CallRainbowDqnMlpNetResetNoise
    \/ CallRainbowDqnConvNetResetNoise
    \/ AssignHead

SpecNoisy == InitNoisy /\ [][NextNoisy]_vars

(***************************************************************************)
(* Construction.  A program that holds no network calls a constructor; the *)
(* call either raises or leaves the program with the network.  inp holds   *)
(* the class and the arguments of the call, out the exception raised.      *)
(* The arguments are the ones the annotations admit and their neighbours:  *)
(* an int state_dim for the MLP classes, an int or a tuple of two or three *)
(* for the convolutional ones, a support tensor of rank 0, 1 or 2.  The    *)
(* NGU and Agent57 convolutional classes hand state_dim to                 *)
(* common.NatureCnnBackboneNet unexamined; they are given an image shape.  *)
(***************************************************************************)
MaxLatent == 2
IntDims == {PyInt(0), PyInt(StateWidth)}
ShapeArgs == {PyInt(StateWidth), PyTuple(<<1, StateWidth>>), PyTuple(<<1, 1, StateWidth>>)}
\* Support tensors of rank 1, 0 and 2, each with its entries in row-major order.
SupportArgs ==
    Supports \cup {Tensor(<<>>, <<0>>)}
      \cup {Tensor(<<1, K>>, T1([k \in 1..K |-> k - 1])) : K \in 1..MaxAtoms}
LatentDims == 0..MaxLatent

\* The program after the call Cls(args) whose outcome is result.
Constructed(cls, args, result) ==
    [inp |-> [cls |-> cls] @@ args,
     net |-> IF Raised(result) THEN Nothing ELSE result,
     out |-> IF Raised(result) THEN result ELSE [constructed |-> cls]]

ConstructDqnMlpNet ==
    /\ net = Nothing
    /\ out = Nothing
    /\ \E state_dim \in IntDims, action_dim \in ActionDims, seed \in Seeds :
       \E c \in {Constructed("DqnMlpNet", [state_dim |-> state_dim, action_dim |-> action_dim],
                              DqnMlpNet(state_dim, action_dim, seed))} :
          /\ inp' = c.inp
          /\ net' = c.net
          /\ out' = c.out
    /\ UNCHANGED <<hidden, calls, spent, twin, prev, resets, heap>>

ConstructDuelingDqnMlpNet ==
    /\ net = Nothing
    /\ out = Nothing
    /\ \E state_dim \in IntDims, action_dim \in ActionDims, seed \in Seeds :
       \E c \in {Constructed("DuelingDqnMlpNet", [state_dim |-> state_dim, action_dim |-> action_dim],
                              DuelingDqnMlpNet(state_dim, action_dim, seed))} :
          /\ inp' = c.inp
          /\ net' = c.net
          /\ out' = c.out
    /\ UNCHANGED <<hidden, calls, spent, twin, prev, resets, heap>>

ConstructDrqnMlpNet ==
    /\ net = Nothing
    /\ out = Nothing
    /\ \E state_dim \in IntDims, action_dim \in ActionDims, seed \in Seeds :
       \E c \in {Constructed("DrqnMlpNet", [state_dim |-> state_dim, action_dim |-> action_dim],
                              DrqnMlpNet(state_dim, action_dim, seed))} :
          /\ inp' = c.inp
          /\ net' = c.net
          /\ out' = c.out
    /\ UNCHANGED <<hidden, calls, spent, twin, prev, resets, heap>>

ConstructR2d2DqnMlpNet ==
    /\ net = Nothing
    /\ out = Nothing
    /\ \E state_dim \in IntDims, action_dim \in ActionDims, seed \in Seeds :
       \E c \in {Constructed("R2d2DqnMlpNet", [state_dim |-> state_dim, action_dim |-> action_dim],
                              R2d2DqnMlpNet(state_dim, action_dim, seed))} :
          /\ inp' = c.inp
          /\ net' = c.net
          /\ out' = c.out
    /\ UNCHANGED <<hidden, calls, spent, twin, prev, resets, heap>>

ConstructDqnConvNet ==
    /\ net = Nothing
    /\ out = Nothing
    /\ \E state_dim \in ShapeArgs, action_dim \in ActionDims, seed \in Seeds :
       \E c \in {Constructed("DqnConvNet", [state_dim |-> state_dim, action_dim |-> action_dim],
                              DqnConvNet(state_dim, action_dim, seed))} :
          /\ inp' = c.inp
          /\ net' = c.net
          /\ out' = c.out
    /\ UNCHANGED <<hidden, calls, spent, twin, prev, resets, heap>>

ConstructDuelingDqnConvNet ==
    /\ net = Nothing
    /\ out = Nothing
    /\ \E state_dim \in ShapeArgs, action_dim \in ActionDims, seed \in Seeds :
       \E c \in {Constructed("DuelingDqnConvNet", [state_dim |-> state_dim, action_dim |-> action_dim],
                              DuelingDqnConvNet(state_dim, action_dim, seed))} :
          /\ inp' = c.inp
          /\ net' = c.net
          /\ out' = c.out
    /\ UNCHANGED <<hidden, calls, spent, twin, prev, resets, heap>>

ConstructDrqnConvNet ==
    /\ net = Nothing
    /\ out = Nothing
    /\ \E state_dim \in ShapeArgs, action_dim \in ActionDims, seed \in Seeds :
       \E c \in {Constructed("DrqnConvNet", [state_dim |-> state_dim, action_dim |-> action_dim],
                              DrqnConvNet(state_dim, action_dim, seed))} :
          /\ inp' = c.inp
          /\ net' = c.net
          /\ out' = c.out
    /\ UNCHANGED <<hidden, calls, spent, twin, prev, resets, heap>>

ConstructR2d2DqnConvNet ==
    /\ net = Nothing
    /\ out = Nothing
    /\ \E state_dim \in ShapeArgs, action_dim \in ActionDims, seed \in Seeds :
       \E c \in {Constructed("R2d2DqnConvNet", [state_dim |-> state_dim, action_dim |-> action_dim],
                              R2d2DqnConvNet(state_dim, action_dim, seed))} :
          /\ inp' = c.inp
          /\ net' = c.net
          /\ out' = c.out
    /\ UNCHANGED <<hidden, calls, spent, twin, prev, resets, heap>>

ConstructC51DqnMlpNet ==
    /\ net = Nothing
    /\ out = Nothing
    /\ \E state_dim \in IntDims, action_dim \in ActionDims, atoms \in SupportArgs,
       seed \in Seeds :
       \E c \in {Constructed("C51DqnMlpNet", [state_dim |-> state_dim, action_dim |-> action_dim, atoms |-> atoms],
                              C51DqnMlpNet(state_dim, action_dim, atoms, seed))} :
          /\ inp' = c.inp
          /\ net' = c.net
          /\ out' = c.out
    /\ UNCHANGED <<hidden, calls, spent, twin, prev, resets, heap>>

ConstructRainbowDqnMlpNet ==
    /\ net = Nothing
    /\ out = Nothing
    /\ \E state_dim \in IntDims, action_dim \in ActionDims, atoms \in SupportArgs,
       seed \in Seeds :
       \E c \in {Constructed("RainbowDqnMlpNet", [state_dim |-> state_dim, action_dim |-> action_dim, atoms |-> atoms],
                              RainbowDqnMlpNet(state_dim, action_dim, atoms, seed))} :
          /\ inp' = c.inp
          /\ net' = c.net
          /\ out' = c.out
    /\ UNCHANGED <<hidden, calls, spent, twin, prev, resets, heap>>

ConstructQRDqnMlpNet ==
    /\ net = Nothing
    /\ out = Nothing
    /\ \E state_dim \in IntDims, action_dim \in ActionDims, quantiles \in SupportArgs,
       seed \in Seeds :
       \E c \in {Constructed("QRDqnMlpNet", [state_dim |-> state_dim, action_dim |-> action_dim, quantiles |-> quantiles],
                              QRDqnMlpNet(state_dim, action_dim, quantiles, seed))} :
          /\ inp' = c.inp
          /\ net' = c.net
          /\ out' = c.out
    /\ UNCHANGED <<hidden, calls, spent, twin, prev, resets, heap>>

ConstructC51DqnConvNet ==
    /\ net = Nothing
    /\ out = Nothing
    /\ \E state_dim \in ShapeArgs, action_dim \in ActionDims, atoms \in SupportArgs,
       seed \in Seeds :
       \E c \in {Constructed("C51DqnConvNet", [state_dim |-> state_dim, action_dim |-> action_dim, atoms |-> atoms],
                              C51DqnConvNet(state_dim, action_dim, atoms, seed))} :
          /\ inp' = c.inp
          /\ net' = c.net
          /\ out' = c.out
    /\ UNCHANGED <<hidden, calls, spent, twin, prev, resets, heap>>

ConstructRainbowDqnConvNet ==
    /\ net = Nothing
    /\ out = Nothing
    /\ \E state_dim \in ShapeArgs, action_dim \in ActionDims, atoms \in SupportArgs,
       seed \in Seeds :
       \E c \in {Constructed("RainbowDqnConvNet", [state_dim |-> state_dim, action_dim |-> action_dim, atoms |-> atoms],
                              RainbowDqnConvNet(state_dim, action_dim, atoms, seed))} :
          /\ inp' = c.inp
          /\ net' = c.net
          /\ out' = c.out
    /\ UNCHANGED <<hidden, calls, spent, twin, prev, resets, heap>>

ConstructQRDqnConvNet ==
    /\ net = Nothing
    /\ out = Nothing
    /\ \E state_dim \in ShapeArgs, action_dim \in ActionDims, quantiles \in SupportArgs,
       seed \in Seeds :
       \E c \in {Constructed("QRDqnConvNet", [state_dim |-> state_dim, action_dim |-> action_dim, quantiles |-> quantiles],
                              QRDqnConvNet(state_dim, action_dim, quantiles, seed))} :
          /\ inp' = c.inp
          /\ net' = c.net
          /\ out' = c.out
    /\ UNCHANGED <<hidden, calls, spent, twin, prev, resets, heap>>

ConstructIqnMlpNet ==
    /\ net = Nothing
    /\ out = Nothing
    /\ \E state_dim \in IntDims, action_dim \in ActionDims, latent_dim \in LatentDims,
       seed \in Seeds :
       \E c \in {Constructed("IqnMlpNet", [state_dim |-> state_dim, action_dim |-> action_dim, latent_dim |-> latent_dim],
                              IqnMlpNet(state_dim, action_dim, latent_dim, seed))} :
          /\ inp' = c.inp
          /\ net' = c.net
          /\ out' = c.out
    /\ UNCHANGED <<hidden, calls, spent, twin, prev, resets, heap>>

ConstructIqnConvNet ==
    /\ net = Nothing
    /\ out = Nothing
    /\ \E state_dim \in ShapeArgs, action_dim \in ActionDims, latent_dim \in LatentDims,
       seed \in Seeds :
       \E c \in {Constructed("IqnConvNet", [state_dim |-> state_dim, action_dim |-> action_dim, latent_dim |-> latent_dim],
                              IqnConvNet(state_dim, action_dim, latent_dim, seed))} :
          /\ inp' = c.inp
          /\ net' = c.net
          /\ out' = c.out
    /\ UNCHANGED <<hidden, calls, spent, twin, prev, resets, heap>>

ConstructNguDqnMlpNet ==
    /\ net = Nothing
    /\ out = Nothing
    /\ \E state_dim \in IntDims, action_dim \in ActionDims, num_policies \in 1..MaxPolicies,
       seed \in Seeds :
       \E c \in {Constructed("NguDqnMlpNet", [state_dim |-> state_dim, action_dim |-> action_dim, num_policies |-> num_policies],
                              NguDqnMlpNet(state_dim, action_dim, num_policies, seed))} :
          /\ inp' = c.inp
          /\ net' = c.net
          /\ out' = c.out
    /\ UNCHANGED <<hidden, calls, spent, twin, prev, resets, heap>>

ConstructNguDqnConvNet ==
    /\ net = Nothing
    /\ out = Nothing
    /\ \E state_dim \in {Image}, action_dim \in ActionDims, num_policies \in 1..MaxPolicies,
       seed \in Seeds :
       \E c \in {Constructed("NguDqnConvNet", [state_dim |-> state_dim, action_dim |-> action_dim, num_policies |-> num_policies],
                              NguDqnConvNet(state_dim, action_dim, num_policies, seed))} :
          /\ inp' = c.inp
          /\ net' = c.net
          /\ out' = c.out
    /\ UNCHANGED <<hidden, calls, spent, twin, prev, resets, heap>>

ConstructAgent57Conv2dNet ==
    /\ net = Nothing
    /\ out = Nothing
    /\ \E state_dim \in {Image}, action_dim \in ActionDims, num_policies \in 1..MaxPolicies,
       seed \in Seeds :
       \E c \in {Constructed("Agent57Conv2dNet", [state_dim |-> state_dim, action_dim |-> action_dim, num_policies |-> num_policies],
                              Agent57Conv2dNet(state_dim, action_dim, num_policies, seed, seed))} :
          /\ inp' = c.inp
          /\ net' = c.net
          /\ out' = c.out
    /\ UNCHANGED <<hidden, calls, spent, twin, prev, resets, heap>>

InitConstruct ==
    /\ net = Nothing
    /\ inp = Nothing /\ out = Nothing /\ hidden = None /\ calls = 0 /\ spent = 0 /\ prev = Nothing
    /\ resets = <<>> /\ heap = <<>>
    /\ twin = Nothing

NextConstruct ==
    \/ ConstructDqnMlpNet
    \/ ConstructDuelingDqnMlpNet
    \/ ConstructDrqnMlpNet
    \/ ConstructR2d2DqnMlpNet
    \/ ConstructDqnConvNet
    \/ ConstructDuelingDqnConvNet
    \/ ConstructDrqnConvNet
    \/ ConstructR2d2DqnConvNet
    \/ ConstructC51DqnMlpNet
    \/ ConstructRainbowDqnMlpNet
    \/ ConstructQRDqnMlpNet
    \/ ConstructC51DqnConvNet
    \/ ConstructRainbowDqnConvNet
    \/ ConstructQRDqnConvNet
    \/ ConstructIqnMlpNet
    \/ ConstructIqnConvNet
    \/ ConstructNguDqnMlpNet
    \/ ConstructNguDqnConvNet
    \/ ConstructAgent57Conv2dNet

SpecConstruct == InitConstruct /\ [][NextConstruct]_vars

(***************************************************************************)
(* Calls of the implicit-quantile networks.  sample_taus draws              *)
(* torch.rand((batch_size, num_taus)): every call picks any tensor of that *)
(* shape with entries in TauValues, fractions in [0, 1) at which the       *)
(* cosine basis is an integer.                                             *)
(***************************************************************************)
MaxTaus == 2
TauValues == {Rat(0, 1), Rat(1, 2)}

SampleTaus(batch_size, num_taus) ==
    {T2(f) : f \in [1..batch_size -> [1..num_taus -> TauValues]]}

IqnNets ==
    {m \in {IqnMlpNet(Vector, a, l, s) : a \in ActionDims, l \in LatentDims, s \in Seeds}
       \cup {IqnConvNet(Image, a, l, s) : a \in ActionDims, l \in LatentDims, s \in Seeds} :
        ~Raised(m)}

CallIqnMlpNet ==
    /\ net.cls = "IqnMlpNet"
    /\ calls < MaxCalls
    /\ \E B \in 1..MaxBatch, num_taus \in 1..MaxTaus :
       \E sp \in SpikeSets({"s_t"}, 1, B, 1, 1), taus \in SampleTaus(B, num_taus) :
          \E x \in {VectorObs(sp, <<B, StateWidth>>)} :
          \E r \in {IqnMlpNetForward(net, x, num_taus, taus)} :
              /\ inp' = [x |-> x, num_taus |-> num_taus]
              /\ out' = [q_values |-> r.q_values, q_dist |-> r.q_dist, taus |-> r.taus]
              /\ spent' = spent + Cardinality(sp)
    /\ calls' = calls + 1
    /\ prev' = [inp |-> inp, out |-> out]
    /\ UNCHANGED <<net, hidden, twin, resets, heap>>

CallIqnConvNet ==
    /\ net.cls = "IqnConvNet"
    /\ calls < MaxCalls
    /\ \E B \in 1..MaxBatch, num_taus \in 1..MaxTaus :
       \E sp \in SpikeSets({"s_t"}, 1, B, 1, 1), taus \in SampleTaus(B, num_taus) :
          \E x \in {ImageObs(sp, B)} :
          \E r \in {IqnConvNetForward(net, x, num_taus, taus)} :
              /\ inp' = [x |-> x, num_taus |-> num_taus]
              /\ out' = [q_values |-> r.q_values, q_dist |-> r.q_dist, taus |-> r.taus]
              /\ spent' = spent + Cardinality(sp)
    /\ calls' = calls + 1
    /\ prev' = [inp |-> inp, out |-> out]
    /\ UNCHANGED <<net, hidden, twin, resets, heap>>

InitIqn ==
    /\ net \in IqnNets
    /\ inp = Nothing /\ out = Nothing /\ hidden = None /\ calls = 0 /\ spent = 0 /\ prev = Nothing
    /\ resets = <<>> /\ heap = <<>>
    /\ twin = Nothing

NextIqn == CallIqnMlpNet \/ CallIqnConvNet

SpecIqn == InitIqn /\ [][NextIqn]_vars

(***************************************************************************)
(* The initial state of Agent57 as objects.  The caller asks for a state   *)
(* and may then write into any tensor of the state it was last given, in   *)
(* place (tensor.fill_(v)).                                                *)
(***************************************************************************)
FillValues == {0, 1}

CallAgent57Conv2dNetGetInitialHiddenState ==
    /\ net.cls = "Agent57Conv2dNet"
    /\ calls < MaxCalls
    /\ \E batch_size \in 1..MaxBatch :
          \E r \in {Agent57Conv2dNetInitialState(net, batch_size, heap)} :
              /\ inp' = [batch_size |-> batch_size]
              /\ out' = r.state
              /\ heap' = r.heap
    /\ calls' = calls + 1
    /\ prev' = [inp |-> inp, out |-> out]
    /\ UNCHANGED <<net, hidden, spent, twin, resets>>

FillTensor ==
    /\ net.cls = "Agent57Conv2dNet"
    /\ calls > 0
    /\ \E i \in 1..Len(out) : \E k \in 1..Len(out[i]) : \E v \in FillValues :
          heap' = [heap EXCEPT ![out[i][k]].data =
                      Full(Len(@), Len(@[1]), Len(@[1][1]), v)]
    /\ UNCHANGED <<net, inp, out, hidden, calls, spent, twin, prev, resets>>

InitAgent57State ==
    /\ net \in Agent57Nets
    /\ inp = Nothing /\ out = Nothing /\ hidden = NoMemory /\ calls = 0 /\ spent = 0 /\ prev = Nothing
    /\ resets = <<>> /\ heap = <<>>
    /\ twin = Nothing

NextAgent57State == CallAgent57Conv2dNetGetInitialHiddenState \/ FillTensor

SpecAgent57State == InitAgent57State /\ [][NextAgent57State]_vars

(***************************************************************************)
(* The point head on its own: DqnMlpNet of every feature width and action  *)
(* count, with seeded parameters or with all parameters zero but the bias  *)
(* of the final layer, called with every batch of observations.            *)
(***************************************************************************)
MaxWidth == 2
BiasValues == {-1, 0, 1}

\* The network with the bias of body[-1] set to bias.
WithFinalBias(self, bias) == [self EXCEPT !.body[Len(self.body)].bias = bias]

PointNets ==
    {DqnMlpNet(PyInt(D), A, seed) : D \in 1..MaxWidth, A \in 1..MaxActionDim, seed \in Seeds}
      \cup UNION {{WithFinalBias(DqnMlpNet(PyInt(D), A, 0), T1(bias)) :
                      bias \in [1..A -> BiasValues]} :
                  D \in 1..MaxWidth, A \in 1..MaxActionDim}

Batches(B, D) == {Tensor(<<B, D>>, T2(f)) : f \in [1..B -> [1..D -> ObsValues]]}

CallPointHead ==
    /\ net.cls = "DqnMlpNet"
    /\ calls < MaxCalls
    /\ \E B \in 1..MaxBatch : \E x \in Batches(B, net.body[1].in_features) :
          \E r \in {DqnMlpNetForward(net, x)} :
              /\ inp' = [x |-> x]
              /\ out' = [q_values |-> r.q_values]
    /\ calls' = calls + 1
    /\ prev' = [inp |-> inp, out |-> out]
    /\ UNCHANGED <<net, hidden, spent, twin, resets, heap>>

InitPoint ==
    /\ net \in PointNets
    /\ inp = Nothing /\ out = Nothing /\ hidden = None /\ calls = 0 /\ spent = 0 /\ prev = Nothing
    /\ resets = <<>> /\ heap = <<>>
    /\ twin = Nothing

NextPoint == CallPointHead

SpecPoint == InitPoint /\ [][NextPoint]_vars

(***************************************************************************)
(* net(input): the forward of the network's class on the arguments of a    *)
(* call.                                                                   *)
(***************************************************************************)
Forward(self, input) ==
    CASE self.cls = "DuelingDqnMlpNet" -> DuelingDqnMlpNetForward(self, input.x)
      [] self.cls = "DuelingDqnConvNet" -> DuelingDqnConvNetForward(self, input.x)
      [] self.cls = "RainbowDqnMlpNet" -> RainbowDqnMlpNetForward(self, input.x)
      [] self.cls = "RainbowDqnConvNet" -> RainbowDqnConvNetForward(self, input.x)
      [] self.cls = "DqnMlpNet" -> DqnMlpNetForward(self, input.x)
      [] self.cls = "DqnConvNet" -> DqnConvNetForward(self, input.x)
      [] self.cls = "C51DqnMlpNet" -> C51DqnMlpNetForward(self, input.x)
      [] self.cls = "C51DqnConvNet" -> C51DqnConvNetForward(self, input.x)
      [] self.cls = "QRDqnMlpNet" -> QRDqnMlpNetForward(self, input.x)
      [] self.cls = "QRDqnConvNet" -> QRDqnConvNetForward(self, input.x)
      [] self.cls = "DrqnMlpNet" -> DrqnMlpNetForward(self, input.x, input.hidden_s)
      [] self.cls = "DrqnConvNet" -> DrqnConvNetForward(self, input.x, input.hidden_s)
      [] self.cls = "R2d2DqnMlpNet" -> R2d2DqnMlpNetForward(self, input)
      [] self.cls = "R2d2DqnConvNet" -> R2d2DqnConvNetForward(self, input)
      [] self.cls = "NguDqnMlpNet" -> NguDqnMlpNetForward(self, input)
      [] self.cls = "NguDqnConvNet" -> NguDqnConvNetForward(self, input)
      [] self.cls = "Agent57Conv2dNet" -> Agent57Conv2dNetForward(self, input)

FeedForwardDueling == {"DuelingDqnMlpNet", "DuelingDqnConvNet"}
RecurrentDueling == {"R2d2DqnMlpNet", "R2d2DqnConvNet", "NguDqnMlpNet", "NguDqnConvNet"}
Rainbow == {"RainbowDqnMlpNet", "RainbowDqnConvNet"}
Drqn == {"DrqnMlpNet", "DrqnConvNet"}

\* A call of a network of one of the classes has returned.
Called(classes) == calls > 0 /\ net.cls \in classes /\ ~Raised(out)

\* The returned q_values as [N, action_dim] rows.
QRows == IF net.cls \in FeedForwardDueling THEN out.q_values ELSE Flatten01(out.q_values)

\* Row n of q is V + (Adv - mean Adv), and q - V has mean zero over actions.
Decomposed(q, values, advantages) ==
    /\ Len(q) = Len(advantages) /\ Len(q) = Len(values)
    /\ \A n \in 1..Len(q) :
          /\ Len(q[n]) = Len(advantages[n]) /\ Len(values[n]) = 1
          /\ RMean([a \in 1..Len(q[n]) |-> RSub(q[n][a], Rat(values[n][1], 1))]) = Zero
          /\ \A a \in 1..Len(q[n]) :
                q[n][a] = RAdd(Rat(values[n][1], 1),
                               RSub(Rat(advantages[n][a], 1), Mean(advantages[n])))

DecomposedBy(q, r) == Decomposed(q, r.values, r.advantages)

\* C1: in every dueling network (DuelingDqnMlpNet, DuelingDqnConvNet, R2d2Dqn*,
\* NguDqn*) the returned q_values are V + (Adv - mean_a Adv) of the call's
\* advantage output [N, action_dim] and value output [N, 1]: for every row the
\* mean over the action axis of q_values - V is zero.
C1_DuelingDecomposition ==
    Called(FeedForwardDueling \cup RecurrentDueling) => DecomposedBy(QRows, Forward(net, inp))

UncentredRow(r) ==
    \E n \in 1..Len(r.advantages) :
        /\ Mean(r.advantages[n]) # Zero
        /\ \E a, b \in 1..Len(r.advantages[n]) : r.advantages[n][a] # r.advantages[n][b]

\* A recurrent dueling call on several rows one of whose advantage rows has
\* unequal entries and a mean other than zero.
C1_Witness ==
    /\ Called(RecurrentDueling)
    /\ Len(QRows) > 1
    /\ UncentredRow(Forward(net, inp))

\* For every batch element b and atom k the sum over the actions a of
\* q_logits[b, a, k] - values[b, 0, k] is zero.
ZeroSumPerAtom(q_logits, values) ==
    /\ Len(q_logits) = Len(values)
    /\ \A b \in 1..Len(q_logits) :
          /\ Len(values[b]) = 1
          /\ \A k \in 1..Len(values[b][1]) :
                RSum([a \in 1..Len(q_logits[b]) |->
                        RSub(q_logits[b][a][k], Rat(values[b][1][k], 1))]) = Zero

ZeroSumBy(q_logits, r) == ZeroSumPerAtom(q_logits, r.values)

\* C2: in the Rainbow networks the advantage mean is taken over the action
\* axis only, never over the atom axis: for every batch element b and every
\* atom index k the sum over actions a of q_logits[b, a, k] - values[b, 0, k]
\* is zero, with advantages viewed as [batch, action_dim, num_atoms] and
\* values as [batch, 1, num_atoms].
C2_RainbowActionAxisMean == Called(Rainbow) => ZeroSumBy(out.q_logits, Forward(net, inp))

AtomsDiffer(r) ==
    \E b \in 1..Len(r.advantages) : \E a \in 1..Len(r.advantages[b]) :
        /\ Len(r.advantages[b]) > 1
        /\ Mean(r.advantages[b][a]) # Mean([c \in 1..Len(r.advantages[b]) |-> r.advantages[b][c][1]])
        /\ \E k, l \in 1..Len(r.advantages[b][a]) :
              r.advantages[b][a][k] # r.advantages[b][a][l]

\* A Rainbow call with several actions and atoms in which an action's
\* advantages differ from atom to atom, so that the two means differ.
C2_Witness == Called(Rainbow) /\ AtomsDiffer(Forward(net, inp))

Ngu == {"NguDqnMlpNet", "NguDqnConvNet"}
SingleStream == Drqn \cup RecurrentDueling
IsAgent57 == net.cls = "Agent57Conv2dNet"

ExtOutputs(o) == <<o.ext_q_values, o.ext_hidden_s>>
IntOutputs(o) == <<o.int_q_values, o.int_hidden_s>>

\* C3: over any sequence of Agent57Conv2dNet.forward calls in which the caller
\* threads the returned ext_hidden_s and int_hidden_s back into the same-named
\* fields, at every step ext_q_values and ext_hidden_s are the same in a run
\* that is given any other intrinsic memory at any step, and int_q_values and
\* int_hidden_s are the same in a run given any other extrinsic memory: the
\* streams share the input tensors only.
C3_DualStreamIndependence ==
    (IsAgent57 /\ calls > 0) =>
        /\ Raised(twin.out) = Raised(out)
        /\ ~Raised(out) =>
              /\ twin.varies = "int_hidden_s" => ExtOutputs(twin.out) = ExtOutputs(out)
              /\ twin.varies = "ext_hidden_s" => IntOutputs(twin.out) = IntOutputs(out)

\* A second, threaded call whose twin was given another intrinsic memory and
\* returned other intrinsic outputs.
C3_Witness ==
    /\ IsAgent57 /\ calls > 1 /\ ~Raised(out)
    /\ twin.varies = "int_hidden_s"
    /\ inp.ext_hidden_s # None
    /\ twin.inp.int_hidden_s # inp.int_hidden_s
    /\ IntOutputs(twin.out) # IntOutputs(out)

NguNetworkInputs(input, hidden_s) ==
    [s_t |-> input.s_t, a_tm1 |-> input.a_tm1, ext_r_t |-> input.ext_r_t,
     int_r_t |-> input.int_r_t, policy_index |-> input.policy_index,
     hidden_s |-> hidden_s]

Routed(r, o, ext_input, int_input, ext_output, int_output) ==
    /\ r.ext_input = ext_input
    /\ r.int_input = int_input
    /\ ~Raised(ext_output) /\ ~Raised(int_output)
    /\ o.ext_q_values = ext_output.q_values /\ o.ext_hidden_s = ext_output.hidden_s
    /\ o.int_q_values = int_output.q_values /\ o.int_hidden_s = int_output.hidden_s

RoutedFrom(r, o, ext_input, int_input) ==
    Routed(r, o, ext_input, int_input,
           NguDqnConvNetForward(net.ext_q, ext_input),
           NguDqnConvNetForward(net.int_q, int_input))

\* C4: Agent57Conv2dNet.forward calls ext_q with the caller's s_t, a_tm1,
\* ext_r_t, int_r_t, policy_index and hidden_s = ext_hidden_s, calls int_q with
\* the same five values and hidden_s = int_hidden_s, and returns ext_q's
\* q_values and state as ext_q_values and ext_hidden_s, int_q's as int_q_values
\* and int_hidden_s.
C4_RoutingWithoutCrossing ==
    (IsAgent57 /\ calls > 0 /\ ~Raised(out)) =>
        RoutedFrom(Forward(net, inp), out,
                   NguNetworkInputs(inp, inp.ext_hidden_s),
                   NguNetworkInputs(inp, inp.int_hidden_s))

\* A call given two different memories that returned different values and
\* different memories for the two streams.
C4_Witness ==
    /\ IsAgent57 /\ calls > 1 /\ ~Raised(out)
    /\ inp.ext_hidden_s # None /\ inp.int_hidden_s # None
    /\ inp.ext_hidden_s # inp.int_hidden_s
    /\ out.ext_q_values # out.int_q_values
    /\ out.ext_hidden_s # out.int_hidden_s

BatchOf(input) == Len(input.s_t[1])

SameCall(o, r) == ~Raised(o) /\ ~Raised(r) /\ o = Returned(r)

\* C5: for R2d2DqnMlpNet, R2d2DqnConvNet, NguDqnMlpNet and NguDqnConvNet a
\* forward call with hidden_s = None on an input of batch size B succeeds and
\* returns the q_values and state of the same call given
\* get_initial_hidden_state(B), B being s_t.shape[1] of that input; and a call
\* given that explicit state returns what the call with None returns.
C5_MissingStateIsZeroState ==
    (calls > 0 /\ net.cls \in RecurrentDueling) =>
        /\ inp.hidden_s = None =>
              SameCall(out, Forward(net, [inp EXCEPT
                            !.hidden_s = GetInitialHiddenState(net, BatchOf(inp))]))
        /\ inp.hidden_s = GetInitialHiddenState(net, BatchOf(inp)) =>
              SameCall(out, Forward(net, [inp EXCEPT !.hidden_s = None]))

\* A call with None on a batch of several columns that returned a state other
\* than the zero state.
C5_Witness ==
    /\ calls > 0 /\ net.cls \in RecurrentDueling
    /\ inp.hidden_s = None
    /\ BatchOf(inp) > 1
    /\ ~Raised(out)
    /\ out.hidden_s # GetInitialHiddenState(net, BatchOf(inp))

ZeroState(s, batch_size, hidden_size) ==
    /\ Len(s) = 2
    /\ \A i \in 1..2 :
          /\ Len(s[i]) = 1
          /\ Len(s[i][1]) = batch_size
          /\ \A b \in 1..batch_size :
                /\ Len(s[i][1][b]) = hidden_size
                /\ \A j \in 1..hidden_size : s[i][1][b][j] = 0

\* C6: for every single-stream recurrent network (Drqn*, R2d2Dqn*, NguDqn*)
\* get_initial_hidden_state(batch_size) returns a pair of exactly two tensors,
\* each all zeros and of shape (1, batch_size, hidden size of the network's
\* cell); the state a caller obtains is such a pair.
C6_InitialHiddenStateIsZeros ==
    net.cls \in SingleStream =>
        /\ net.lstm.num_layers = 1
        /\ \A batch_size \in 1..MaxBatch :
              ZeroState(GetInitialHiddenState(net, batch_size), batch_size,
                        net.lstm.hidden_size)
        /\ (calls = 0 /\ hidden # None) =>
              \E batch_size \in 1..MaxBatch :
                  /\ hidden = GetInitialHiddenState(net, batch_size)
                  /\ ZeroState(hidden, batch_size, net.lstm.hidden_size)

\* A caller obtained the state for the largest batch.
C6_Witness ==
    /\ net.cls \in SingleStream /\ calls = 0 /\ hidden # None
    /\ ZeroState(hidden, MaxBatch, net.lstm.hidden_size)

Result(r) == IF IsAgent57 THEN Returned57(r) ELSE Returned(r)

\* C7: the network keeps no recurrent memory between calls: after any earlier
\* calls, what a forward call of a recurrent network returns is what the
\* forward of a network with the same parameters returns on that call's
\* inputs and hidden_s argument alone; so a call with hidden_s = None after
\* any history returns what it returns on a fresh network.
C7_NoRetainedMemory ==
    (calls > 0 /\ (net.cls \in SingleStream \/ IsAgent57)) =>
        out = Result(Forward(net, inp))

\* A second call with None, after a call that returned a state from which the
\* same call would have returned something else.
C7_Witness ==
    /\ calls > 1 /\ net.cls \in SingleStream
    /\ inp.hidden_s = None
    /\ ~Raised(prev.out)
    /\ Len(prev.out.hidden_s[1][1]) = Len(out.hidden_s[1][1])
    /\ out # Returned(Forward(net, [inp EXCEPT !.hidden_s = prev.out.hidden_s]))

\* The second of two calls was passed the state the first returned.
Threaded ==
    /\ calls > 1 /\ net.cls \in SingleStream
    /\ inp.hidden_s # None
    /\ ~Raised(prev.out) /\ inp.hidden_s = prev.out.hidden_s

Tensors(input) == [f \in DOMAIN input \ {"hidden_s"} |-> input[f]]
InputDiffers == Tensors(prev.inp) # Tensors(inp)
ZeroRun == Returned(Forward(net, [inp EXCEPT !.hidden_s = None]))

AllZero(s) ==
    \A i \in 1..Len(s) : \A b \in 1..Len(s[i][1]) : \A j \in 1..Len(s[i][1][b]) :
        s[i][1][b][j] = 0

FromState(o, zero, cell, state) ==
    /\ ~Raised(o) /\ ~Raised(cell)
    /\ o.hidden_s = cell.hidden_s
    /\ o # zero => ~AllZero(state)

\* C8 as stated: whenever the input differs between the two calls, the output
\* of the threaded second call differs from that of the second call given a
\* zero state.
C8_MustDiffer == (Threaded /\ InputDiffers) => out # ZeroRun

\* C8, amended: the second of two calls, passed the state the first returned,
\* runs the cell from that state: the state it returns is the cell's state
\* after the call's input from the threaded state, and its output differs from
\* that of the call given a zero state only if the threaded state is not all
\* zeros.  A difference is not guaranteed: it depends on the parameters.
C8_ThreadedStateIsUsed ==
    Threaded =>
        FromState(out, ZeroRun,
                  LSTM(net.lstm, Forward(net, inp).core_input, inp.hidden_s),
                  inp.hidden_s)

\* A threaded second call on another input whose q_values differ from those
\* of the zero-state call.
C8_Witness ==
    /\ Threaded /\ InputDiffers
    /\ out.q_values # ZeroRun.q_values

Rectangular(x, d0, d1, d2) ==
    /\ Len(x) = d0
    /\ \A i \in 1..d0 :
          /\ Len(x[i]) = d1
          /\ \A j \in 1..d1 : Len(x[i][j]) = d2

Features ==
    Sequential(net.body, IF net.cls = "NguDqnConvNet"
                         THEN Float255(Flatten01(inp.s_t)) ELSE Flatten01(inp.s_t))

Concatenated(core_input, features) ==
    /\ Len(core_input) = Len(inp.s_t)
    /\ \A t \in 1..Len(inp.s_t) :
          /\ Len(core_input[t]) = Len(inp.s_t[t])
          /\ \A b \in 1..Len(inp.s_t[t]) :
                /\ core_input[t][b] =
                      features[(t - 1) * Len(inp.s_t[t]) + b]
                        \o <<inp.ext_r_t[t][b]>>
                        \o OneHot(inp.a_tm1[t][b], net.action_dim)
                        \o <<inp.int_r_t[t][b]>>
                        \o OneHot(inp.policy_index[t][b], net.num_policies)
                /\ Len(core_input[t][b]) = net.lstm.input_size
                /\ Len(core_input[t][b]) =
                      Len(features[1]) + net.num_policies + net.action_dim + 2

ResetNoiseStep == CallRainbowDqnMlpNetResetNoise \/ CallRainbowDqnConvNetResetNoise

Kinds(head) == [i \in 1..Len(head) |-> head[i].kind] \o <<>>

\* Both heads are as the constructors build them: noisy layer, ReLU, noisy layer.
AsConstructed(self) ==
    /\ Kinds(self.advantage_head) = <<"NoisyLinear", "ReLU", "NoisyLinear">>
    /\ Kinds(self.value_head) = <<"NoisyLinear", "ReLU", "NoisyLinear">>

Interleaved ==
    <<(<<"advantage_head", 0>>), (<<"value_head", 0>>),
      (<<"advantage_head", 2>>), (<<"value_head", 2>>)>>

Range(f) == {f[i] : i \in DOMAIN f}

\* The noisy layers of a network, by head and index.
NoisyLayers(self) ==
    {l \in {"advantage_head", "value_head"} \X (0..(2 * MaxDepth - 2)) :
        /\ l[2] + 1 <= Len(self[l[1]])
        /\ self[l[1]][l[2] + 1].kind = "NoisyLinear"}

\* C11: one invocation of reset_noise on a Rainbow network with the heads its
\* constructor built calls reset_noise of each of the four noisy layers, in the
\* order advantage layer, value layer, advantage layer, value layer, and each
\* of the four layers has drawn a new sample.
C11_ResetNoiseReachesEveryLayer ==
    [][(ResetNoiseStep /\ AsConstructed(net)) =>
          /\ resets' = Interleaved
          /\ Range(resets') = NoisyLayers(net)
          /\ \A l \in NoisyLayers(net) : net'[l[1]][l[2] + 1].noise \in FreshNoise]_vars

C11_Witness ==
    /\ AsConstructed(net)
    /\ resets = Interleaved
    /\ \A l \in NoisyLayers(net) : net[l[1]][l[2] + 1].noise \in FreshNoise

\* The layers of a head that lie beyond the length of the shorter head.
Beyond(self) ==
    {l \in NoisyLayers(self) :
        l[2] + 1 > Min(Len(self.advantage_head), Len(self.value_head))}

\* C12: when the two heads have different module counts, an invocation of
\* reset_noise stops at the length of the shorter head: no noisy layer beyond
\* that length in the longer head has its reset_noise called, and each such
\* layer keeps its sample; the noisy layers within that length are reset.
C12_TraversalStopsAtShorterHead ==
    [][(ResetNoiseStep /\ Len(net.advantage_head) # Len(net.value_head)) =>
          /\ \A l \in Beyond(net) :
                /\ l \notin Range(resets')
                /\ net'[l[1]][l[2] + 1] = net[l[1]][l[2] + 1]
          /\ Range(resets') = NoisyLayers(net) \ Beyond(net)]_vars

C12_Witness ==
    /\ resets # <<>>
    /\ Len(net.advantage_head) # Len(net.value_head)
    /\ Beyond(net) # {}
    /\ \A l \in Beyond(net) : l \notin Range(resets) /\ net[l[1]][l[2] + 1].noise = 1
    /\ \A l \in NoisyLayers(net) \ Beyond(net) :
          l \in Range(resets) /\ net[l[1]][l[2] + 1].noise \in FreshNoise

\* A layer without its noise sample.
Learned(layer) == IF "noise" \in DOMAIN layer THEN [layer EXCEPT !.noise = 0] ELSE layer

\* C13: an invocation of reset_noise calls reset_noise of noisy layers only and
\* of each at most once; it leaves the body, the atoms, action_dim, num_atoms,
\* the class, the number, order and learned parameters of the layers of both
\* heads, and everything outside the network as they were.
C13_ResetNoiseFrame ==
    [][ResetNoiseStep =>
          /\ \A j \in 1..Len(resets') :
                /\ resets'[j] \in NoisyLayers(net)
                /\ \A k \in 1..Len(resets') : resets'[j] = resets'[k] => j = k
          /\ [net' EXCEPT !.advantage_head = <<>>, !.value_head = <<>>]
                = [net EXCEPT !.advantage_head = <<>>, !.value_head = <<>>]
          /\ \A head \in {"advantage_head", "value_head"} :
                /\ Len(net'[head]) = Len(net[head])
                /\ \A i \in 1..Len(net[head]) :
                      /\ Learned(net'[head][i]) = Learned(net[head][i])
                      /\ (net'[head][i] # net[head][i]) => <<head, i - 1>> \in Range(resets')
          /\ UNCHANGED <<inp, out, hidden, calls, spent, twin, prev, heap>>]_vars

C13_Witness ==
    /\ resets # <<>>
    /\ Len(resets) > 0
    /\ \E l \in NoisyLayers(net) : l \in Range(resets) /\ net[l[1]][l[2] + 1].noise \in FreshNoise
    /\ \E head \in {"advantage_head", "value_head"} :
          \E i \in 1..Len(net[head]) : net[head][i].kind = "ReLU"

(***************************************************************************)
(* Construction-time validation.                                           *)
(***************************************************************************)
MlpClasses ==
    {"DqnMlpNet", "DuelingDqnMlpNet", "C51DqnMlpNet", "RainbowDqnMlpNet", "QRDqnMlpNet",
     "IqnMlpNet", "DrqnMlpNet", "R2d2DqnMlpNet", "NguDqnMlpNet"}

ConvClasses ==
    {"DqnConvNet", "DuelingDqnConvNet", "C51DqnConvNet", "RainbowDqnConvNet",
     "QRDqnConvNet", "IqnConvNet", "DrqnConvNet", "R2d2DqnConvNet", "NguDqnConvNet",
     "Agent57Conv2dNet"}

\* A constructor has been called.
ConstructorCalled == "cls" \in DOMAIN inp /\ "action_dim" \in DOMAIN inp

\* The call failed with the constructor's own ValueError and left no network.
Rejected == Raised(out) /\ out.raised = "ValueError" /\ net = Nothing

\* C14: a constructor called with action_dim < 1 fails with a ValueError, for
\* every class; an MLP constructor called with state_dim < 1 fails likewise.
C14_ConstructorsRejectNonPositive ==
    ConstructorCalled =>
        /\ inp.action_dim < 1 => Rejected
        /\ (inp.cls \in MlpClasses /\ inp.state_dim.int < 1) => Rejected

\* The arguments of the call other than state_dim are valid.
OthersValid ==
    /\ inp.action_dim >= 1
    /\ "atoms" \in DOMAIN inp => Len(inp.atoms.shape) = 1
    /\ "quantiles" \in DOMAIN inp => Len(inp.quantiles.shape) = 1
    /\ "latent_dim" \in DOMAIN inp => inp.latent_dim >= 1

\* C15: a convolutional constructor given a state_dim tuple that has not three
\* elements fails with a ValueError about state_dim, and given a tuple of
\* three elements (the other arguments valid) it does not fail.
C15_ConvConstructorsValidateShape ==
    (ConstructorCalled /\ inp.cls \in ConvClasses /\ ~IsInt(inp.state_dim) /\ OthersValid) =>
        IF Len(inp.state_dim.tuple) = 3 THEN ~Raised(out)
        ELSE Rejected /\ out.what = "state_dim"

\* state_dim is valid for the class of the call.
StateDimValid ==
    IF inp.cls \in MlpClasses THEN inp.state_dim.int >= 1
    ELSE ~IsInt(inp.state_dim) /\ Len(inp.state_dim.tuple) = 3

\* The last linear layer of a distributional network.
FinalLayer(self) ==
    LET head == IF "advantage_head" \in DOMAIN self THEN self.advantage_head
                ELSE IF "value_head" \in DOMAIN self THEN self.value_head
                ELSE self.body
    IN  head[Len(head)]

\* The support argument of the call, if it has one.
HasSupport == "atoms" \in DOMAIN inp \/ "quantiles" \in DOMAIN inp
Support == IF "atoms" \in DOMAIN inp THEN inp.atoms ELSE inp.quantiles
SupportName == IF "atoms" \in DOMAIN inp THEN "atoms" ELSE "quantiles"

\* C16: a C51, Rainbow or QR constructor given a support whose rank is not 1,
\* and an IQN constructor given latent_dim < 1, raises and leaves no network
\* and no layer; the error is the ValueError about that argument when
\* action_dim and state_dim are valid.  A constructor that succeeds with a
\* rank-1 support of length K has a final layer of width action_dim * K.
C16_SupportValidatedAtConstruction ==
    ConstructorCalled =>
        /\ (HasSupport /\ Len(Support.shape) # 1) =>
              /\ Raised(out) /\ net = Nothing
              /\ (inp.action_dim >= 1 /\ StateDimValid) =>
                    out = Raise("ValueError", SupportName)
        /\ ("latent_dim" \in DOMAIN inp /\ inp.latent_dim < 1) =>
              /\ Raised(out) /\ net = Nothing
              /\ (inp.action_dim >= 1 /\ StateDimValid) =>
                    out = Raise("ValueError", "latent_dim")
        /\ (HasSupport /\ ~Raised(out)) =>
              /\ Len(Support.shape) = 1
              /\ FinalLayer(net).out_features = inp.action_dim * Support.shape[1]

C16_Witness ==
    /\ ConstructorCalled
    /\ inp.cls = "C51DqnMlpNet"
    /\ Len(inp.atoms.shape) = 2
    /\ inp.action_dim >= 1 /\ StateDimValid
    /\ out = Raise("ValueError", "atoms")
    /\ net = Nothing

(***************************************************************************)
(* Call-time shapes and the distributional heads.                          *)
(***************************************************************************)
\* The MLP classes whose forward is the body alone.
SingleHeadMlp == {"DqnMlpNet", "C51DqnMlpNet", "QRDqnMlpNet"}

\* C17: a forward call whose observation has not the rank the network
\* declares does not return: an MLP network that declares [B, state_dim] and
\* is called with a tensor [B, T, state_dim] raises.
C17_RankMismatchAborts ==
    (Called(SingleHeadMlp \cup {"DqnConvNet"}) /\ net.cls \in SingleHeadMlp
        /\ Rank(inp.x) # 2) => Raised(out)

Categorical == {"C51DqnMlpNet", "C51DqnConvNet", "RainbowDqnMlpNet", "RainbowDqnConvNet"}
Quantile == {"QRDqnMlpNet", "QRDqnConvNet"}

One == Rat(1, 1)

\* Every vector of q_dist along the atom axis has num_atoms entries in 0..1
\* that sum to 1.
SumsToOne(self, r) ==
    \A n \in 1..Len(r.q_dist) : \A a \in 1..Len(r.q_dist[n]) :
        /\ Len(r.q_dist[n][a]) = self.num_atoms
        /\ \A k \in 1..self.num_atoms :
              r.q_dist[n][a][k][1] >= 0 /\ r.q_dist[n][a][k][1] <= r.q_dist[n][a][k][2]
        /\ RSum(r.q_dist[n][a]) = One

\* C18: in every call of a C51 or Rainbow network the probabilities obtained
\* from q_logits by the softmax along the atom axis sum to 1 for every batch
\* element and every action, and q_logits is what the call returns.
C18_ProbabilitiesSumToOne ==
    Called(Categorical) =>
        \E r \in {Forward(net, inp)} :
            /\ r.q_logits = out.q_logits
            /\ Len(r.q_dist) = Len(out.q_logits)
            /\ SumsToOne(net, r)

\* Some probability vector of the call has two different nonzero entries.
Spread(r) ==
    \E n \in 1..Len(r.q_dist) : \E a \in 1..Len(r.q_dist[n]) :
        \E k, l \in 1..Len(r.q_dist[n][a]) :
            /\ r.q_dist[n][a][k] # r.q_dist[n][a][l]
            /\ r.q_dist[n][a][k][1] > 0 /\ r.q_dist[n][a][l][1] > 0

C18_Witness ==
    /\ Called(Categorical)
    /\ net.num_atoms >= 2
    /\ Spread(Forward(net, inp))

\* The number of observations in a call: the leading axes of the tensor.
BatchSize(self, input) ==
    IF self.cls \in Rainbow THEN Len(input.x)
    ELSE IF Rank(input.x) = 3 THEN input.x.shape[1] * input.x.shape[2]
    ELSE input.x.shape[1]

\* The probabilities of returned logits: F.softmax(q_logits, dim=-1).
Probabilities(self, q_logits) ==
    T2([n \in 1..Len(q_logits) |-> [a \in 1..Len(q_logits[n]) |->
        IF self.cls \in Rainbow THEN Softmax(q_logits[n][a], self.action_dim)
        ELSE SoftmaxOf(q_logits[n][a])]])

\* q_values is [d0, d1] and its entry for (b, a) pairs atom k with the
\* probability of index k.
ExpectedValues(q_values, q_dist, atoms, d0, d1) ==
    /\ Len(q_values) = d0
    /\ \A b \in 1..d0 :
          /\ Len(q_values[b]) = d1
          /\ \A a \in 1..d1 :
                q_values[b][a]
                  = RSum([k \in 1..Len(atoms) |-> RMul(Rat(atoms[k], 1), q_dist[b][a][k])])

\* C19: a call of a categorical network returns q_logits of shape (batch,
\* action_dim, num_atoms), the logits before normalization, and q_values of
\* shape (batch, action_dim) with q_values[b, a] the sum over k of atoms[k]
\* times the probability of index k computed from those q_logits.
C19_LogitsAndValuesConsistent ==
    Called(Categorical) =>
        \E r \in {Forward(net, inp)} : \E p \in {Probabilities(net, out.q_logits)} :
            /\ Rectangular(out.q_logits, BatchSize(net, inp), net.action_dim, net.num_atoms)
            /\ out.q_logits = r.q_logits
            /\ ExpectedValues(out.q_values, p, net.atoms, BatchSize(net, inp), net.action_dim)

C19_Witness ==
    /\ Called({"C51DqnMlpNet", "C51DqnConvNet"})
    /\ net.num_atoms >= 2
    /\ Spread([q_dist |-> Probabilities(net, out.q_logits)])
    /\ \E b \in 1..Len(out.q_values) : \E a \in 1..Len(out.q_values[b]) :
          out.q_values[b][a] # Zero

\* q_values is [d0, d1] and its entry for (b, a) is the mean over the middle
\* axis of q_dist.
MeanOverFractions(q_values, q_dist, d0, d1) ==
    /\ Len(q_values) = d0
    /\ \A b \in 1..d0 :
          /\ Len(q_values[b]) = d1
          /\ \A a \in 1..d1 :
                q_values[b][a]
                  = Rat(Sum([k \in 1..Len(q_dist[b]) |-> q_dist[b][k][a]]), Len(q_dist[b]))

\* C20: a call of a QR network returns q_dist of shape (batch, num_taus,
\* action_dim) holding the head's outputs as they are, in order, and q_values
\* with q_values[b, a] the mean over the num_taus indices k of q_dist[b, k, a].
C20_QuantileMean ==
    Called(Quantile) =>
        \E r \in {Forward(net, inp)} :
            /\ Rectangular(out.q_dist, BatchSize(net, inp), net.num_taus, net.action_dim)
            /\ Flatten01(Flatten01(out.q_dist)) = Flatten01(r.rows)
            /\ MeanOverFractions(out.q_values, out.q_dist, BatchSize(net, inp), net.action_dim)

C20_Witness ==
    /\ Called(Quantile)
    /\ net.num_taus >= 2 /\ net.action_dim >= 2
    /\ \E b \in 1..Len(out.q_dist) :
          /\ out.q_dist[b][1][2] # out.q_dist[b][2][1]
          /\ Mean(out.q_dist[b][1]) # out.q_values[b][1]

(***************************************************************************)
(* The implicit-quantile networks.                                         *)
(***************************************************************************)
Iqn == {"IqnMlpNet", "IqnConvNet"}

\* The backbone features of the observations of the call.
IqnFeatures(self, x) ==
    IF self.cls = "IqnConvNet" THEN Sequential(self.body, Float255(x.data))
    ELSE Sequential(self.body, x.data)

\* The head's outputs for one fraction and the features of one batch element.
QuantileRow(self, feature_row, tau) ==
    LET basis == [l \in 1..self.latent_dim |-> CosPi(self.pis[l], tau)]
        embedded == SequentialRow(<<self.embedding_layer, ReLU>>, basis)
    IN  SequentialRow(self.value_head,
                      [j \in 1..Len(embedded) |-> embedded[j] * feature_row[j]])

FromReturnedTaus(self, features, r, B, N) ==
    /\ Len(r.taus) = B
    /\ Len(r.q_dist) = B
    /\ \A b \in 1..B :
          /\ Len(r.taus[b]) = N
          /\ Len(r.q_dist[b]) = N
          /\ \A n \in 1..N :
                /\ r.taus[b][n][1] >= 0 /\ r.taus[b][n][1] < r.taus[b][n][2]
                /\ r.q_dist[b][n] = QuantileRow(self, features[b], r.taus[b][n])

ShapeOfValues(q_values, B, A) ==
    /\ Len(q_values) = B
    /\ \A b \in 1..B : Len(q_values[b]) = A

ZeroButFinalBias(self) ==
    \A i \in 1..Len(self.body) :
        self.body[i].kind = "Linear" =>
            /\ \A o \in 1..self.body[i].out_features :
                  \A j \in 1..self.body[i].in_features : self.body[i].weight[o][j] = 0
            /\ i < Len(self.body) =>
                  \A o \in 1..self.body[i].out_features : self.body[i].bias[o] = 0

PointActionDim(self) == self.body[Len(self.body)].out_features

\* C23: DqnMlpNet.forward on a (B, D) batch returns q_values of shape (B, A)
\* for every A, D and B, and when every parameter is zero but the bias of the
\* final layer every row of q_values is that bias, whatever the input.
C23_PointHeadShapeAndBias ==
    (Called({"DqnMlpNet"}) /\ Rank(inp.x) = 2) =>
        /\ inp.x.shape[2] = net.body[1].in_features
        /\ ShapeOfValues(out.q_values, inp.x.shape[1], PointActionDim(net))
        /\ ZeroButFinalBias(net) =>
              \A b \in 1..Len(out.q_values) :
                  out.q_values[b] = net.body[Len(net.body)].bias

\* Two observations of width 2, one of them nonzero, through a network with
\* two actions whose final biases differ and are not zero.
C23_Witness ==
    /\ Called({"DqnMlpNet"})
    /\ inp.x.shape = <<2, 2>>
    /\ inp.x.data[1] # inp.x.data[2]
    /\ PointActionDim(net) = 2
    /\ ZeroButFinalBias(net)
    /\ net.body[Len(net.body)].bias = <<1, -1>>
    /\ out.q_values = <<<<1, -1>>, <<1, -1>>>>

(***************************************************************************)
(* The initial state of Agent57.                                           *)
(***************************************************************************)
Positions == {<<i, k>> : i \in 1..2, k \in 1..2}

\* The state a call returned: (ext_state, int_state), each a pair of new
\* all-zero tensors of shape (num_layers, batch_size, hidden_size) made by
\* that sub-network, four different objects.
FreshZeroStates(self, state, batch_size, before, after) ==
    /\ Len(state) = 2
    /\ \A i \in 1..2 : Len(state[i]) = 2
    /\ Cardinality({state[p[1]][p[2]] : p \in Positions}) = 4
    /\ \A p \in Positions :
          /\ state[p[1]][p[2]] \in (1..Len(after)) \ (1..Len(before))
          /\ after[state[p[1]][p[2]]].by = (IF p[1] = 1 THEN "ext_q" ELSE "int_q")
          /\ after[state[p[1]][p[2]]].data
                = Zeros(1, batch_size,
                        (IF p[1] = 1 THEN self.ext_q ELSE self.int_q).lstm.hidden_size)
    /\ \A a \in 1..Len(before) : after[a] = before[a]

\* A write changed the tensor at no more than one position of the state.
OneTensorWritten(state, before, after) ==
    \E p \in Positions : \A q \in Positions \ {p} :
        after[state[q[1]][q[2]]] = before[state[q[1]][q[2]]]

\* C24: Agent57Conv2dNet.get_initial_hidden_state(batch_size) returns the
\* pair (extrinsic state, intrinsic state), each a pair of all-zero tensors of
\* shape (1, batch_size, hidden size); the four tensors are different new
\* objects, so a write into one of them changes none of the other three.
C24_InitialStatesIndependent ==
    [][/\ calls' = calls + 1 => FreshZeroStates(net, out', inp'.batch_size, heap, heap')
       /\ (calls' = calls /\ heap' # heap) => OneTensorWritten(out, heap, heap')]_vars

\* After a write into the first tensor of the extrinsic state, that tensor is
\* the only one of the four that is not zero.
C24_Witness ==
    /\ calls > 0 /\ net.cls = "Agent57Conv2dNet" /\ inp = [batch_size |-> 2]
    /\ heap[out[1][1]].data = Full(1, 2, net.ext_q.lstm.hidden_size, 1)
    /\ \A p \in Positions \ {<<1, 1>>} :
          heap[out[p[1]][p[2]]].data = Zeros(1, 2, net.ext_q.lstm.hidden_size)

(***************************************************************************)
(* The cell input of the R2D2 and DRQN networks.                           *)
(***************************************************************************)
R2d2 == {"R2d2DqnMlpNet", "R2d2DqnConvNet"}

\* The backbone features of the observations, flattened to rows.
BodyFeatures(self, rows) ==
    Sequential(self.body, IF self.cls \in {"R2d2DqnConvNet", "DrqnConvNet"}
                          THEN Float255(rows) ELSE rows)

\* core_input[t][b] is features, reward, one-hot action, of the cell's width.
R2d2Concatenated(self, input, core_input, features) ==
    /\ Len(core_input) = Len(input.s_t)
    /\ \A t \in 1..Len(input.s_t) :
          /\ Len(core_input[t]) = Len(input.s_t[t])
          /\ \A b \in 1..Len(input.s_t[t]) :
                /\ core_input[t][b] =
                      features[(t - 1) * Len(input.s_t[t]) + b]
                        \o <<input.r_t[t][b]>>
                        \o OneHot(input.a_tm1[t][b], self.action_dim)
                /\ Len(core_input[t][b]) = self.lstm.input_size
                /\ Len(core_input[t][b]) = Len(features[1]) + self.action_dim + 1

\* The cell's input [B, T, features] is the features alone.
FeaturesAlone(self, x, core_input, features) ==
    /\ Len(core_input) = Len(x)
    /\ \A b \in 1..Len(x) :
          /\ Len(core_input[b]) = Len(x[b])
          /\ \A t \in 1..Len(x[b]) :
                /\ core_input[b][t] = features[(b - 1) * Len(x[b]) + t]
                /\ Len(core_input[b][t]) = self.lstm.input_size

\* C25: in R2d2DqnMlpNet.forward and R2d2DqnConvNet.forward alike the cell's
\* input for every (t, b) is the backbone features, then the previous reward,
\* then the one-hot previous action of width action_dim, and its width is the
\* LSTM's input size, features + action_dim + 1; in the DRQN forwards the
\* cell's input is the backbone features alone.
C25_R2d2CoreInput ==
    /\ Called(R2d2) =>
          R2d2Concatenated(net, inp, Forward(net, inp).core_input,
                           BodyFeatures(net, Flatten01(inp.s_t)))
    /\ Called(Drqn) =>
          FeaturesAlone(net, inp.x, Forward(net, inp).core_input,
                        BodyFeatures(net, Flatten01(inp.x)))

\* An R2D2 call with several actions and a nonzero reward at some (t, b).
C25_Witness ==
    /\ Called(R2d2)
    /\ net.action_dim > 1
    /\ \E t \in 1..Len(inp.s_t) : \E b \in 1..Len(inp.s_t[t]) : inp.r_t[t][b] # 0

(***************************************************************************)
(* One call over T steps against T calls of one step.                      *)
(***************************************************************************)
\* The arguments of a call on step t alone, with the state h.
StepInput(input, t, h) ==
    [f \in DOMAIN input |-> IF f = "hidden_s" THEN h ELSE <<input[f][t]>>]

\* Successive one-step calls from step t on, each given the state the call
\* before it returned: the q_values of every step and the last state.
RECURSIVE StepByStep(_, _, _, _, _)
StepNext(self, input, t, r, qs) ==
    IF Raised(r) THEN r
    ELSE StepByStep(self, input, t + 1, r.hidden_s, qs \o r.q_values)
StepByStep(self, input, t, h, qs) ==
    IF t > Len(input.s_t) THEN [q_values |-> qs, hidden_s |-> h]
    ELSE StepNext(self, input, t, Forward(self, StepInput(input, t, h)), qs)

\* C26: for R2d2Dqn* and NguDqn* one forward call over all T steps returns the
\* q_values at every step and the final state that T successive one-step
\* calls return, the first given the same initial state and every later one
\* the state returned by the call before it.
C26_ChunkingEquivalence ==
    Called(RecurrentDueling) =>
        out = StepByStep(net, inp, 1, inp.hidden_s, <<>>)

\* The state after the first step of a two-step call.
AfterFirstStep == Forward(net, StepInput(inp, 1, inp.hidden_s)).hidden_s

\* A two-step call from a held state whose first step changes the state and
\* whose second step changes it again, with different q_values at the steps.
C26_Witness ==
    /\ Called(RecurrentDueling)
    /\ Len(inp.s_t) = 2
    /\ inp.hidden_s # None
    /\ AfterFirstStep # inp.hidden_s
    /\ AfterFirstStep # out.hidden_s
    /\ AfterFirstStep[1] # AfterFirstStep[2]
    /\ out.q_values[1] # out.q_values[2]

(***************************************************************************)
(* Merging and splitting of the time and batch axes.                       *)
(***************************************************************************)
TimeSteps(input) ==
    IF "x" \in DOMAIN input THEN Len(input.x[1]) ELSE Len(input.s_t)
Columns(input) ==
    IF "x" \in DOMAIN input THEN Len(input.x) ELSE Len(input.s_t[1])

\* The arguments of a call on the one element (t, b), with the state h.
ElementInput(input, t, b, h) ==
    IF "x" \in DOMAIN input THEN [x |-> <<<<input.x[b][t]>>>>, hidden_s |-> h]
    ELSE [f \in DOMAIN input |-> IF f = "hidden_s" THEN h ELSE <<<<input[f][t][b]>>>>]

\* Column b of a state.
ColumnState(h, b) ==
    IF h = None THEN None ELSE << <<<<h[1][1][b]>>>>, <<<<h[2][1][b]>>>> >>

\* Column b on its own, one step at a time from step t on: the action values
\* of every step and the last state.
RECURSIVE ColumnRun(_, _, _, _, _, _)
ColumnNext(self, input, b, t, r, qs) ==
    IF Raised(r) THEN r
    ELSE ColumnRun(self, input, b, t + 1, r.hidden_s, Append(qs, r.q_values[1][1]))
ColumnRun(self, input, b, t, h, qs) ==
    IF t > TimeSteps(input) THEN [q_values |-> qs, hidden_s |-> h]
    ELSE ColumnNext(self, input, b, t, Forward(self, ElementInput(input, t, b, h)), qs)

\* The action values the call returned for (t, b).
ValuesAt(self, o, t, b) ==
    IF self.cls \in Drqn THEN o.q_values[b][t] ELSE o.q_values[t][b]

AlignedWith(self, input, o, b, run) ==
    /\ ~Raised(run)
    /\ \A t \in 1..TimeSteps(input) : ValuesAt(self, o, t, b) = run.q_values[t]
    /\ \A k \in 1..2 : o.hidden_s[k][1][b] = run.hidden_s[k][1][1]

PixelNets ==
    {"DqnConvNet", "DuelingDqnConvNet", "C51DqnConvNet", "RainbowDqnConvNet",
     "QRDqnConvNet", "IqnConvNet", "DrqnConvNet", "R2d2DqnConvNet", "NguDqnConvNet"}

\* The attributes __init__ assigns and the routine it calls, in order.
ConstructorStatements(cls) ==
    CASE cls = "DqnConvNet" ->
            <<"action_dim", "body", "value_head", "initialize_weights">>
      [] cls = "DuelingDqnConvNet" ->
            <<"action_dim", "body", "advantage_head", "value_head">>
      [] cls = "C51DqnConvNet" ->
            <<"action_dim", "atoms", "num_atoms", "body", "value_head",
              "initialize_weights">>
      [] cls = "RainbowDqnConvNet" ->
            <<"action_dim", "atoms", "num_atoms", "body", "advantage_head",
              "value_head", "initialize_weights">>
      [] cls = "QRDqnConvNet" ->
            <<"action_dim", "taus", "num_taus", "body", "value_head",
              "initialize_weights">>
      [] cls = "IqnConvNet" ->
            <<"action_dim", "latent_dim", "pis", "body", "embedding_layer",
              "value_head", "initialize_weights">>
      [] cls = "DrqnConvNet" ->
            <<"action_dim", "body", "lstm", "value_head", "initialize_weights">>
      [] cls = "R2d2DqnConvNet" ->
            <<"action_dim", "body", "lstm", "advantage_head", "value_head",
              "initialize_weights">>
      [] cls = "NguDqnConvNet" ->
            <<"action_dim", "num_policies", "body", "lstm", "advantage_head",
              "value_head", "initialize_weights">>

Assembled == {"body", "lstm", "embedding_layer", "advantage_head", "value_head"}

\* One call of the routine, after every module has been assigned.
InitializedOnceAfterAssembly(statements) ==
    \E i \in 1..Len(statements) :
        /\ statements[i] = "initialize_weights"
        /\ \A j \in 1..Len(statements) :
              /\ statements[j] = "initialize_weights" => j = i
              /\ statements[j] \in Assembled => j < i

\* The backbone's output on the rows of the observation divided by 255.
ScaledFeatures(self, rows) == Sequential(self.body, Float255(rows))

\* The leading entries of every row of a cell input are the features.
FeaturesLead(core_input, features) ==
    \A n \in 1..Len(features) :
        SubSeq(Flatten01(core_input)[n], 1, Len(features[n])) = features[n]

\* What the call returned is what the heads make of the scaled features.
FromScaled(self, input, o, features) ==
    CASE self.cls = "DqnConvNet" ->
            o.q_values = Sequential(self.value_head, features)
      [] self.cls = "DuelingDqnConvNet" ->
            o.q_values = DuelingQValues(Sequential(self.value_head, features),
                                        Sequential(self.advantage_head, features))
      [] self.cls = "C51DqnConvNet" ->
            o.q_logits = C51NetworkOutputs(self, Sequential(self.value_head, features)).q_logits
      [] self.cls = "RainbowDqnConvNet" ->
            o.q_logits =
               DuelingQLogits(View3(Sequential(self.value_head, features), 1, self.num_atoms),
                              View3(Sequential(self.advantage_head, features),
                                    self.action_dim, self.num_atoms))
      [] self.cls = "QRDqnConvNet" ->
            o.q_dist = QRDqnNetworkOutputs(self, Sequential(self.value_head, features)).q_dist
      [] self.cls = "IqnConvNet" ->
            o.q_dist = IqnNetworkOutputs(self, features, o.taus, input.x.shape[1],
                                         input.num_taus).q_dist
      [] OTHER -> FeaturesLead(Forward(self, input).core_input, features)

\* The rows of the observation of a call.
PixelRows(self, input) ==
    IF self.cls \in {"DuelingDqnConvNet", "RainbowDqnConvNet"} THEN input.x
    ELSE IF self.cls = "DrqnConvNet" THEN Flatten01(input.x)
    ELSE IF self.cls \in {"R2d2DqnConvNet", "NguDqnConvNet"} THEN Flatten01(input.s_t)
    ELSE input.x.data

PreparedAlike(classes) ==
    /\ Called(classes) =>
          FromScaled(net, inp, out, ScaledFeatures(net, PixelRows(net, inp)))
    /\ ("cls" \in DOMAIN net /\ net.cls \in classes) =>
          InitializedOnceAfterAssembly(ConstructorStatements(net.cls))

\* C28: in each of DqnConvNet, DuelingDqnConvNet, C51DqnConvNet,
\* RainbowDqnConvNet, QRDqnConvNet, IqnConvNet, DrqnConvNet, R2d2DqnConvNet and
\* NguDqnConvNet the forward pass divides the observation by 255 before the
\* backbone, and the constructor calls the weight-initialization routine
\* exactly once, after the backbone, the recurrent cell and the heads have
\* been assembled.
C28_ConvNetsPreparedAlike == PreparedAlike(PixelNets)

====
